---- MODULE Spec2Model ----
(***************************************************************************)
(* A model of aerospace-layout-manager (the script of                      *)
(* src/unnamed/part_000): the top-level setup (layout lookup, display      *)
(* enumeration and selection) followed by the five steps of Main           *)
(* (clearWorkspace, traverseTreeMove, traverseTreeReposition,              *)
(* switchToWorkspace, traverseTreeResize), one action per external         *)
(* command the script awaits.  The window manager, the applications and    *)
(* the displays are the environment.                                       *)
(***************************************************************************)
EXTENDS Integers, Sequences, FiniteSets, TLC

(***************************************************************************)
(* Bounds of the model.                                                    *)
(***************************************************************************)
\* How many external commands may end with a non-zero exit status in a run.
MaxFailures == 1
\* How many windows may open on their own account (after a launch) in a run.
MaxEnvEvents == 1
\* The largest numerator and denominator of the sizes compared.
MaxPart == 12

(***************************************************************************)
(* Numbers: JavaScript numbers are IEEE-754 doubles.  The size arithmetic  *)
(* of resizeWindow is modelled bit for bit on little-endian bit sequences. *)
(***************************************************************************)
\* Number("x") for a text that is no number.
NaN == -1
\* Infinity, what a positive number divided by 0 is.
Infinity == -2
\* The significand of a double.
MantissaBits == 53

RECURSIVE Pow2(_)
Pow2(k) == IF k = 0 THEN 1 ELSE 2 * Pow2(k - 1)

\* 2^k mod b, by repeated squaring.
RECURSIVE Pow2Mod(_, _)
Pow2Mod(k, b) ==
    IF k = 0 THEN 1 % b
    ELSE LET h == Pow2Mod(k \div 2, b)
             s == (h * h) % b
         IN  IF k % 2 = 0 THEN s ELSE (2 * s) % b

\* The number of significant bits of x.
RECURSIVE BitLen(_)
BitLen(x) == IF x = 0 THEN 0 ELSE 1 + BitLen(x \div 2)

RECURSIVE FromBits(_)
FromBits(bits) ==
    IF bits = <<>> THEN 0 ELSE Head(bits) + 2 * FromBits(Tail(bits))

\* bits + 1 (one bit longer when every bit is 1).
IncBits(bits) ==
    LET zeros == {i \in 1..Len(bits) : bits[i] = 0}
    IN  IF zeros = {} THEN [i \in 1..(Len(bits) + 1) |-> IF i = Len(bits) + 1 THEN 1 ELSE 0]
        ELSE LET j == CHOOSE i \in zeros : \A k \in zeros : i <= k
             IN  [i \in 1..Len(bits) |-> IF i < j THEN 0 ELSE IF i = j THEN 1 ELSE bits[i]]

\* bits * m for a small integer m, limb by limb of LimbBits bits.
MulBits(bits, m) ==
    LET LimbBits == 13
        nl      == (Len(bits) + LimbBits - 1) \div LimbBits
        limb(j) == FromBits(SubSeq(bits, (j - 1) * LimbBits + 1,
                                   IF j * LimbBits < Len(bits) THEN j * LimbBits ELSE Len(bits)))
        base    == Pow2(LimbBits)
        RECURSIVE carry(_)
        carry(j) == IF j = 0 THEN 0 ELSE (limb(j) * m + carry(j - 1)) \div base
        digit(j) == (limb(j) * m + carry(j - 1)) % base
        top      == carry(nl)
        width    == nl * LimbBits + BitLen(top)
    IN  [i \in 1..width |->
            IF i <= nl * LimbBits
            THEN (digit((i - 1) \div LimbBits + 1) \div Pow2((i - 1) % LimbBits)) % 2
            ELSE (top \div Pow2(i - nl * LimbBits - 1)) % 2]

\* The k with 2^k <= n/d < 2^(k+1).
RECURSIVE Log2Floor(_, _)
Log2Floor(n, d) ==
    IF n < d THEN Log2Floor(2 * n, d) - 1
    ELSE IF n >= 2 * d THEN Log2Floor(n, 2 * d) + 1
    ELSE 0

\* Round an integer to MantissaBits bits, to nearest, ties to even:
\* its value is m * 2^shift.
RoundBits(bits) ==
    LET L == Len(bits)
    IN  IF L <= MantissaBits THEN [m |-> bits, shift |-> 0]
        ELSE LET drop   == L - MantissaBits
                 high   == SubSeq(bits, drop + 1, L)
                 half   == bits[drop]
                 sticky == \E i \in 1..(drop - 1) : bits[i] = 1
                 up     == half = 1 /\ (sticky \/ high[1] = 1)
                 inc    == IF up THEN IncBits(high) ELSE high
             IN  IF Len(inc) > MantissaBits
                 THEN [m |-> Tail(inc), shift |-> drop + 1]
                 ELSE [m |-> inc, shift |-> drop]

\* The double n / d (n, d positive integers): m * 2^exp.
FloatDiv(n, d) ==
    LET k      == Log2Floor(n, d)
        a      == IF k >= 0 THEN n ELSE n * Pow2(-k)
        b      == IF k >= 0 THEN d * Pow2(k) ELSE d
        rem(i) == ((a - b) * Pow2Mod(i, b)) % b
        frac   == MantissaBits - 1
        trunc  == [i \in 1..MantissaBits |->
                     IF i = MantissaBits THEN 1
                     ELSE IF 2 * rem(frac - i) >= b THEN 1 ELSE 0]
        last   == rem(frac)
        up     == 2 * last > b \/ (2 * last = b /\ trunc[1] = 1)
        inc    == IF up THEN IncBits(trunc) ELSE trunc
    IN  IF Len(inc) > MantissaBits
        THEN [m |-> Tail(inc), exp |-> k - frac + 1]
        ELSE [m |-> inc, exp |-> k - frac]

\* Math.floor(x * q) for a positive integer x and a double q.
FloatMulFloor(x, q) ==
    LET prod == MulBits(q.m, x)
        sig  == SubSeq(prod, 1, CHOOSE l \in 0..Len(prod) :
                                   /\ l = 0 \/ prod[l] = 1
                                   /\ \A i \in (l + 1)..Len(prod) : prod[i] = 0)
        r    == RoundBits(sig)
        t    == q.exp + r.shift
    IN  IF t >= 0 THEN FromBits(r.m) * Pow2(t)
        ELSE IF -t >= Len(r.m) THEN 0
        ELSE FromBits(SubSeq(r.m, 1 - t, Len(r.m)))

\* A variant of NewWidth: the fraction is taken upside down.
InverseWidth(screenDimension, numerator, denominator) ==
    FloatMulFloor(screenDimension, FloatDiv(denominator, numerator))

\* Math.floor(screenDimension * (numerator / denominator)), of numbers that
\* are not negative: x / 0 is Infinity, 0 / 0 and 0 * Infinity are NaN.
NewWidth(screenDimension, numerator, denominator) ==
    IF NaN \in {screenDimension, numerator, denominator} THEN NaN
    ELSE IF denominator = 0
         THEN IF numerator = 0 \/ screenDimension = 0 THEN NaN ELSE Infinity
    ELSE IF numerator = 0 \/ screenDimension = 0 THEN 0
    ELSE FloatMulFloor(screenDimension, FloatDiv(numerator, denominator))

(***************************************************************************)
(* The configuration document: LayoutItem, Layout, LayoutConfig.           *)
(* A size is what size.split("/").map(Number) yields: the sequence of the  *)
(* numbers between the slashes (NaN for a text that is no number); NoSize  *)
(* is an item without the size field.  A display selector is undefined, a  *)
(* number, or a text (a sequence of characters).                           *)
(***************************************************************************)
NoSize == <<>>

LayoutWindow(bundleId, size) ==
    [kind |-> "window", bundleId |-> bundleId, size |-> size,
     orientation |-> "", windows |-> <<>>, layout |-> ""]

LayoutGroup(orientation, size, windows) ==
    [kind |-> "group", bundleId |-> "", size |-> size,
     orientation |-> orientation, windows |-> windows, layout |-> ""]

\* A group object of the configuration file with a layout property of its
\* own: the file is parsed as it is, and no code reads the property.
LayoutGroupWithLayout(orientation, size, windows, mode) ==
    [LayoutGroup(orientation, size, windows) EXCEPT !.layout = mode]

Undefined == [type |-> "undefined", text |-> <<>>, num |-> 0]
Text(chars) == [type |-> "string", text |-> chars, num |-> 0]
Num(n) == [type |-> "number", text |-> <<>>, num |-> n]

Layout(workspace, mode, orientation, windows, display) ==
    [workspace |-> workspace, layout |-> mode, orientation |-> orientation,
     windows |-> windows, display |-> display]

\* The bundle ids of the applications, and the windows they can show: window
\* w belongs to AppOf[w].  "X" is an application no layout names.
AppOf == <<"A", "A", "B", "C", "X">>
WindowIds == DOMAIN AppOf

\* layoutConfig.layouts of the configuration file.
Layouts ==
    [ab |->
        Layout("1", "v_tiles", "vertical",
               <<LayoutWindow("A", NoSize), LayoutWindow("B", NoSize)>>,
               Text(<<"m", "a", "i", "n">>)),
     plain |->
        Layout("1", "v_tiles", "vertical",
               <<LayoutWindow("A", NoSize), LayoutWindow("B", NoSize)>>,
               Undefined),
     work |->
        Layout("1", "v_tiles", "vertical",
               <<LayoutWindow("A", NoSize),
                 LayoutGroup("horizontal", NoSize,
                             <<LayoutWindow("B", <<7, 10>>),
                               LayoutWindow("C", <<1, 3>>)>>)>>,
               Text(<<"m", "a", "i", "n">>)),
     wide |->
        Layout("1", "h_tiles", "horizontal",
               <<LayoutGroup("vertical", <<2, 3>>,
                             <<LayoutWindow("B", NoSize),
                               LayoutGroup("horizontal", <<1, 2>>,
                                           <<LayoutWindow("C", <<1, 3>>),
                                             LayoutWindow("B", <<1, 0>>),
                                             LayoutWindow("A", <<0, 1>>)>>)>>),
                 LayoutWindow("A", <<1, 3>>)>>,
               Text(<<"s", "e", "c", "o", "n", "d", "a", "r", "y">>)),
     side |->
        Layout("1", "h_tiles", "horizontal",
               <<LayoutGroup("horizontal", NoSize,
                             <<LayoutWindow("B", NoSize),
                               LayoutWindow("C", <<NaN, 2>>),
                               LayoutWindow("C", <<1>>)>>)>>,
               Num(2)),
     stack |->
        Layout("1", "tiles", "horizontal",
               <<LayoutWindow("A", NoSize),
                 LayoutGroupWithLayout("vertical", NoSize,
                                       <<LayoutWindow("B", NoSize),
                                         LayoutWindow("C", NoSize)>>,
                                       "v_accordion")>>,
               Text(<<"m", "a", "i", "n">>)),
     empty |->
        Layout("1", "tiles", "horizontal", <<>>,
               Text(<<"m", "a", "i", "n">>)),
     onSecondary |->
        Layout("1", "tiles", "horizontal", <<>>,
               Text(<<"s", "e", "c", "o", "n", "d", "a", "r", "y">>)),
     onExternal |->
        Layout("1", "tiles", "horizontal", <<>>,
               Text(<<"e", "x", "t", "e", "r", "n", "a", "l">>)),
     onInternal |->
        Layout("1", "tiles", "horizontal", <<>>,
               Text(<<"i", "n", "t", "e", "r", "n", "a", "l">>)),
     byName |->
        Layout("1", "tiles", "horizontal", <<>>, Text(<<"d", "e", "l", "l">>)),
     byLetter |->
        Layout("1", "tiles", "horizontal", <<>>, Text(<<"L">>)),
     byCapital |->
        Layout("1", "tiles", "horizontal", <<>>, Text(<<"M", "a", "i", "n">>)),
     byId |->
        Layout("1", "tiles", "horizontal", <<>>, Num(3)),
     byIdText |->
        Layout("1", "tiles", "horizontal", <<>>, Text(<<"2">>)),
     byNoId |->
        Layout("1", "tiles", "horizontal", <<>>, Num(9)),
     byZero |->
        Layout("1", "tiles", "horizontal", <<>>, Num(0)),
     byEmpty |->
        Layout("1", "tiles", "horizontal", <<>>, Text(<<>>))]

LayoutNames == DOMAIN Layouts

\* The layouts above that place no window: they differ by their display.
ScreenNames ==
    {"empty", "onSecondary", "onExternal", "onInternal", "byName", "byLetter",
     "byCapital", "byId", "byIdText", "byNoId", "byZero", "byEmpty"}

(***************************************************************************)
(* Displays: DisplayInfo records, in the order of enumeration.  id 0 is    *)
(* an absent id (parseInt(...) || undefined).                              *)
(***************************************************************************)
DisplayInfo(id, name, width, height, isMain, isInternal) ==
    [id |-> id, name |-> name, width |-> width, height |-> height,
     isMain |-> isMain, isInternal |-> isInternal]

BuiltIn == DisplayInfo(1, <<"C", "o", "l", "o", "r", " ", "L", "C", "D">>,
                       1440, 900, TRUE, TRUE)
External == DisplayInfo(2, <<"D", "E", "L", "L">>, 1920, 1080, FALSE, FALSE)

\* The same two displays when the external one is the main display, a
\* third display, and a second internal display.
BuiltInSecond == DisplayInfo(1, <<"C", "o", "l", "o", "r", " ", "L", "C", "D">>,
                             1440, 900, FALSE, TRUE)
ExternalMain == DisplayInfo(2, <<"D", "E", "L", "L">>, 1920, 1080, TRUE, FALSE)
Projector == DisplayInfo(3, <<"H", "D", "M", "I", " ", "2">>, 1280, 720, FALSE, FALSE)
Sidecar == DisplayInfo(4, <<"i", "P", "a", "d">>, 1366, 1024, FALSE, TRUE)
\* A display whose resolution reads "0 x": parseInt gives 0 and NaN.
Headless == DisplayInfo(5, <<"T", "V">>, 0, NaN, FALSE, FALSE)

DisplayAlias ==
    [Main |-> <<"m", "a", "i", "n">>,
     Secondary |-> <<"s", "e", "c", "o", "n", "d", "a", "r", "y">>,
     External |-> <<"e", "x", "t", "e", "r", "n", "a", "l">>,
     Internal |-> <<"i", "n", "t", "e", "r", "n", "a", "l">>]

\* displays.find(pred): the index of the first display pred holds of (the
\* first of hits, the indices it holds of), 0 (undefined) when there is none.
First(hits) == IF hits = {} THEN 0 ELSE CHOOSE i \in hits : \A j \in hits : i <= j

IsMain(d) == d.isMain
NotMain(d) == ~d.isMain
IsInternal(d) == d.isInternal
NotInternal(d) == ~d.isInternal

FindMain(displays) == First({i \in 1..Len(displays) : IsMain(displays[i])})

\* Variants of the three lookups below: each looks for another flag.
FindNotMainAsMain(displays) == FindMain(displays)
FindInternalAsMain(displays) == FindMain(displays)
FindNotInternalAsNotMain(displays) ==
    First({i \in 1..Len(displays) : NotMain(displays[i])})

FindNotMain(displays) == First({i \in 1..Len(displays) : NotMain(displays[i])})
FindInternal(displays) == First({i \in 1..Len(displays) : IsInternal(displays[i])})
FindNotInternal(displays) == First({i \in 1..Len(displays) : NotInternal(displays[i])})

\* The result of a selection: the index of a display (0: undefined), or an
\* error thrown.
Found(i) == [threw |-> FALSE, index |-> i]
Thrown == [threw |-> TRUE, index |-> 0]

getDisplayByAlias(alias, displays) ==
    IF alias = DisplayAlias.Main THEN Found(FindMain(displays))
    ELSE IF alias = DisplayAlias.Secondary THEN
        IF Len(displays) < 2 THEN Found(FindMain(displays))
        ELSE IF Len(displays) > 2 THEN Thrown
        ELSE Found(FindNotMain(displays))
    ELSE IF alias = DisplayAlias.External THEN
        LET externalDisplays == SelectSeq(displays, NotInternal)
        IN  IF Len(externalDisplays) = 0 THEN Found(FindMain(displays))
            ELSE IF Len(externalDisplays) > 1 THEN Thrown
            ELSE Found(FindNotInternal(displays))
    ELSE IF alias = DisplayAlias.Internal THEN Found(FindInternal(displays))
    ELSE Found(0)

\* A variant of Fold: the case of a letter is kept.
NoFold(c) == c

\* The letters of a text folded to one case (the "i" flag of the RegExp).
Fold(c) ==
    CASE c = "A" -> "a" [] c = "B" -> "b" [] c = "C" -> "c" [] c = "D" -> "d"
      [] c = "E" -> "e" [] c = "H" -> "h" [] c = "I" -> "i" [] c = "L" -> "l"
      [] c = "M" -> "m" [] c = "N" -> "n" [] c = "O" -> "o" [] c = "P" -> "p"
      [] c = "R" -> "r" [] c = "S" -> "s"
      [] c = "T" -> "t" [] c = "X" -> "x" [] c = "Y" -> "y"
      [] OTHER -> c

\* new RegExp(regExp, "i").test(name), for a pattern of literal characters:
\* the pattern occurs in the name, whatever the case of the letters.
RegExpTest(regExp, name) ==
    \E s \in 0..(Len(name) - Len(regExp)) :
        \A k \in 1..Len(regExp) : Fold(name[s + k]) = Fold(regExp[k])

getDisplayByName(regExp, displays) ==
    First({i \in 1..Len(displays) : RegExpTest(regExp, displays[i].name)})

getDisplayById(id, displays) ==
    First({i \in 1..Len(displays) : displays[i].id # 0 /\ displays[i].id = id})

\* Number(text) of a text of decimal digits; NaN for any other text but "".
DigitOf(c) ==
    CASE c = "0" -> 0 [] c = "1" -> 1 [] c = "2" -> 2 [] c = "3" -> 3
      [] c = "4" -> 4 [] c = "5" -> 5 [] c = "6" -> 6 [] c = "7" -> 7
      [] c = "8" -> 8 [] c = "9" -> 9 [] OTHER -> NaN

RECURSIVE DecimalOf(_, _)
DecimalOf(chars, acc) ==
    IF chars = <<>> THEN acc
    ELSE IF DigitOf(Head(chars)) = NaN THEN NaN
    ELSE DecimalOf(Tail(chars), 10 * acc + DigitOf(Head(chars)))

\* A variant of Number: a text is not a number, whatever its characters.
NumberOfNumbers(display) == IF display.type = "number" THEN display.num ELSE NaN

Number(display) ==
    IF display.type = "number" THEN display.num
    ELSE IF display.type = "string" THEN DecimalOf(display.text, 0)
    ELSE NaN

\* if (layout.display): undefined, "", 0 and NaN are falsy.
Truthy(display) ==
    \/ display.type = "string" /\ display.text # <<>>
    \/ display.type = "number" /\ display.num # 0 /\ display.num # NaN

selectDisplay(layout, displays) ==
    LET display == layout.display
        isAlias == \E k \in DOMAIN DisplayAlias : DisplayAlias[k] = display.text
        selected ==
            IF ~Truthy(display) THEN Found(0)
            ELSE IF display.type = "string" /\ Number(display) = NaN THEN
                IF isAlias THEN getDisplayByAlias(display.text, displays)
                ELSE Found(getDisplayByName(display.text, displays))
            ELSE Found(getDisplayById(Number(display), displays))
    IN  IF selected.threw \/ selected.index = 0 THEN Thrown ELSE selected


(***************************************************************************)
(* The three traversals of the layout tree.  Which nodes a traversal       *)
(* visits, and in which order, depends on the tree alone: each traversal   *)
(* is the sequence of the visits at which it issues external commands,     *)
(* and the actions below walk through that sequence.                       *)
(***************************************************************************)
\* traverseTreeMove: the leaves, depth first; each is ensured and moved.
RECURSIVE traverseTreeMove(_)
traverseTreeMove(tree) ==
    IF tree = <<>> THEN <<>>
    ELSE LET item == Head(tree)
         IN  (IF item.kind = "window" THEN <<item.bundleId>>
              ELSE traverseTreeMove(item.windows))
             \o traverseTreeMove(Tail(tree))

\* Variants of JoinsLeaf: a join at any depth, the root list included; a
\* join of the second leaf of a group alone.
JoinsAtAnyDepth(depth, i) == i > 0
JoinsSecondOnly(depth, i) == depth > 0 /\ i = 1
\* Another: a join of every leaf of a group, the first included.
JoinsEveryLeaf(depth, i) == depth > 0

\* Whether traverseTreeReposition joins the leaf at index i (from 0) of a
\* list at this depth with the window before it.
JoinsLeaf(depth, i) == depth > 0 /\ i > 0

\* traverseTreeReposition from the item at index i (from 0) of tree: "init"
\* is the flatten and the workspace layout, before the first item of the
\* root list; "join" is a leaf that is focused and joined.
RECURSIVE traverseTreeReposition(_, _, _)
traverseTreeReposition(tree, depth, i) ==
    IF i >= Len(tree) THEN <<>>
    ELSE LET item == tree[i + 1]
             first == IF depth = 0 /\ i = 0
                      THEN <<[op |-> "init", bundleId |-> ""]>> ELSE <<>>
             here == IF item.kind = "window"
                     THEN IF JoinsLeaf(depth, i)
                          THEN <<[op |-> "join", bundleId |-> item.bundleId]>>
                          ELSE <<>>
                     ELSE traverseTreeReposition(item.windows, depth + 1, 0)
         IN  first \o here \o traverseTreeReposition(tree, depth, i + 1)

Dimension(orientation) == IF orientation = "horizontal" THEN "width" ELSE "height"

\* getDimension(item) under the layout: an item with an orientation gives
\* its own, any other the layout's.
getDimension(item, layout) ==
    IF item.kind = "group" THEN Dimension(item.orientation)
    ELSE Dimension(layout.orientation)

\* A variant of GroupDimension: a group of the root list gives its own
\* orientation.
GroupOwnDimension(item, parent, layout) ==
    IF parent # <<>> THEN getDimension(parent[1], layout)
    ELSE getDimension(item, layout)

\* The dimension traverseTreeResize takes for a sized group's first child:
\* parent is the enclosing group, or <<>> (null) in the root list.
GroupDimension(item, parent, layout) ==
    IF parent # <<>> THEN getDimension(parent[1], layout)
    ELSE Dimension(layout.orientation)

\* A variant of traverseTreeResize: the children of a group are visited
\* before the first child is resized for the group.
RECURSIVE ChildrenFirst(_, _, _)
ChildrenFirst(tree, parent, layout) ==
    IF tree = <<>> THEN <<>>
    ELSE LET item == Head(tree)
             here ==
                 IF item.kind = "window" THEN
                     IF item.size # NoSize
                     THEN <<[bundleId |-> item.bundleId, size |-> item.size,
                             dimension |-> getDimension(
                                 IF parent # <<>> THEN parent[1] ELSE item, layout),
                             of |-> "window"]>>
                     ELSE <<>>
                 ELSE
                     ChildrenFirst(item.windows, <<item>>, layout)
                     \o (IF /\ item.size # NoSize
                            /\ item.windows # <<>>
                            /\ item.windows[1].kind = "window"
                         THEN <<[bundleId |-> item.windows[1].bundleId,
                                 size |-> item.size,
                                 dimension |-> GroupDimension(item, parent, layout),
                                 of |-> "group"]>>
                         ELSE <<>>)
         IN  here \o ChildrenFirst(Tail(tree), parent, layout)

\* traverseTreeResize: a sized leaf is resized; a sized group whose first
\* child is a leaf has that child resized, before its children are visited.
\* parent is <<>> (null) or <<group>>.
RECURSIVE traverseTreeResize(_, _, _)
traverseTreeResize(tree, parent, layout) ==
    IF tree = <<>> THEN <<>>
    ELSE LET item == Head(tree)
             here ==
                 IF item.kind = "window" THEN
                     IF item.size # NoSize
                     THEN <<[bundleId |-> item.bundleId, size |-> item.size,
                             dimension |-> getDimension(
                                 IF parent # <<>> THEN parent[1] ELSE item, layout),
                             of |-> "window"]>>
                     ELSE <<>>
                 ELSE
                     (IF /\ item.size # NoSize
                         /\ item.windows # <<>>
                         /\ item.windows[1].kind = "window"
                      THEN <<[bundleId |-> item.windows[1].bundleId,
                              size |-> item.size,
                              dimension |-> GroupDimension(item, parent, layout),
                              of |-> "group"]>>
                      ELSE <<>>)
                     \o traverseTreeResize(item.windows, <<item>>, layout)
         IN  here \o traverseTreeResize(Tail(tree), parent, layout)


(***************************************************************************)
(* The state.                                                              *)
(***************************************************************************)
VARIABLES
    layoutName,       \* the layout asked for on the command line
    stashWorkspace,   \* layoutConfig.stashWorkspace ?? "S"
    displays,         \* what getDisplays() returns
    winWs,            \* the workspace of each window, "closed" when not open
    launched,         \* the applications `open -b` has started
    selectedDisplay,  \* the index in displays of selectedDisplay, 0 before
    pc,               \* the command the script issues next
    idx,              \* the visit of the running traversal (the turn of the loop)
    toStash,          \* clearWorkspace: the windows it listed
    attempt,          \* ensureWindow: the queries made for the leaf so far
    windowId,         \* the window id the last query returned, 0 for null
    log,              \* the external commands issued by this run, in order
    failures,         \* commands that may still end with a non-zero status
    envEvents,        \* windows that may still open on their own account
    run,              \* 1: the first invocation, 2: the second
    firstTarget       \* the windows of the target workspace after run 1

vars == <<layoutName, stashWorkspace, displays, winWs, launched,
          selectedDisplay, pc, idx, toStash, attempt, windowId, log,
          failures, envEvents, run, firstTarget>>

\* const layout = layoutConfig.layouts[layoutName]
layout == Layouts[layoutName]

\* for await (const i of Array(30)) in ensureWindow
PollAttempts == 30

\* The windows `aerospace list-windows --workspace ws` lists, by window id.
RECURSIVE Listing(_, _)
Listing(ws, w) ==
    IF w > Len(AppOf) THEN <<>>
    ELSE (IF winWs[w] = ws THEN <<w>> ELSE <<>>) \o Listing(ws, w + 1)

\* A variant of getWindowsInWorkspace: the first window listed alone.
firstWindowInWorkspace(ws) ==
    IF Listing(ws, 1) = <<>> THEN <<>> ELSE <<Head(Listing(ws, 1))>>

getWindowsInWorkspace(ws) == Listing(ws, 1)

\* A variant of getWindowId: the last window listed for the application.
getLastWindowId(bundleId) ==
    LET open == {w \in WindowIds : AppOf[w] = bundleId /\ winWs[w] # "closed"}
    IN  IF open = {} THEN 0 ELSE CHOOSE w \in open : \A v \in open : w >= v

\* getWindowId: the first window `aerospace list-windows --monitor all
\* --app-bundle-id` lists for the application, null (0) when it lists none.
getWindowId(bundleId) ==
    LET open == {w \in WindowIds : AppOf[w] = bundleId /\ winWs[w] # "closed"}
    IN  IF open = {} THEN 0 ELSE CHOOSE w \in open : \A v \in open : w <= v

\* Whether the application is running: it was started or shows a window.
IsRunning(bundleId) ==
    \/ bundleId \in launched
    \/ \E w \in WindowIds : AppOf[w] = bundleId /\ winWs[w] # "closed"

\* What `osascript ... | grep -q true` writes to its standard output:
\* grep -q writes nothing, whatever osascript answers.
ProbeText(running) == ""

\* The step of Main a command belongs to.
PassOf(p) ==
    CASE p \in {"clearList", "clearMove"} -> "clear"
      [] p \in {"probe", "open", "poll", "moveWin"} -> "move"
      [] p \in {"flatten", "layoutList", "layoutSet", "repoQuery", "focus", "join"}
            -> "reposition"
      [] p = "switch" -> "switch"
      [] p \in {"resizeQuery", "resize"} -> "resize"
      [] OTHER -> "setup"

\* A variant of Awaited: the resize command is started and not waited for.
AwaitedButResize(op) == op # "resize"

\* Whether the script waits for the end of a command before it goes on:
\* every command, and the sleep, is the operand of an await.
Awaited(op) == TRUE

\* One external command: its kind, the window it names (the window a query
\* answers with), the application it names, its argument (a workspace, a
\* layout, a dimension), its number (the pixels of a resize), whether it
\* ended with status 0, the step of Main and the visit that issued it, and
\* whether the script waited for its end.
Call(op, win, app, arg, val, ok) ==
    [op |-> op, win |-> win, app |-> app, arg |-> arg, val |-> val,
     ok |-> ok, pass |-> PassOf(pc), visit |-> idx, awaited |-> Awaited(op)]

\* The exit statuses a command may end with: TRUE is status 0.
Outcomes == IF failures > 0 THEN {TRUE, FALSE} ELSE {TRUE}

Spend(ok) == failures' = IF ok THEN failures ELSE failures - 1


(***************************************************************************)
(* Control flow of Main: where the script goes after a visit.              *)
(***************************************************************************)
MoveVisits == traverseTreeMove(layout.windows)
RepositionVisits == traverseTreeReposition(layout.windows, 0, 0)
ResizeVisits == traverseTreeResize(layout.windows, <<>>, layout)

\* await traverseTreeResize(layout.windows), from visit i on; then the end.
ResizeFrom(i) ==
    IF i <= Len(ResizeVisits) THEN [pc |-> "resizeQuery", idx |-> i]
    ELSE [pc |-> "done", idx |-> 0]

\* A variant of RepositionFrom: the resize follows the reposition at once.
RepositionThenResize(i) ==
    IF i <= Len(RepositionVisits)
    THEN [pc |-> IF RepositionVisits[i].op = "init" THEN "flatten" ELSE "repoQuery",
          idx |-> i]
    ELSE ResizeFrom(1)

\* await traverseTreeReposition(layout.windows), from visit i on; then
\* await switchToWorkspace(layout.workspace).
RepositionFrom(i) ==
    IF i <= Len(RepositionVisits)
    THEN [pc |-> IF RepositionVisits[i].op = "init" THEN "flatten" ELSE "repoQuery",
          idx |-> i]
    ELSE [pc |-> "switch", idx |-> 0]

\* await traverseTreeMove(layout.windows), from visit i on; then the
\* reposition.
MoveFrom(i) ==
    IF i <= Len(MoveVisits) THEN [pc |-> "probe", idx |-> i]
    ELSE RepositionFrom(1)

Goto(next) == pc' = next.pc /\ idx' = next.idx

\* An uncaught error: the script ends.
Throw == pc' = "error" /\ idx' = idx

inputs == <<layoutName, stashWorkspace, displays, run, firstTarget>>
locals == <<toStash, attempt, windowId>>

(***************************************************************************)
(* Setup: the statements before Main.                                      *)
(***************************************************************************)
\* const layout = layoutConfig.layouts[layoutName]; if (!layout) throw
SelectLayout ==
    /\ pc = "start"
    /\ pc' = IF layoutName \in LayoutNames THEN "getDisplays" ELSE "error"
    /\ UNCHANGED <<inputs, locals, winWs, launched, selectedDisplay, idx, log,
                   failures, envEvents>>

\* if (!displays): an array, even an empty one, is truthy.
NoDisplays(found) == FALSE

\* const displays = getDisplays(); if (!displays) throw
GetDisplays ==
    /\ pc = "getDisplays"
    /\ pc' = IF NoDisplays(displays) THEN "error" ELSE "selectDisplay"
    /\ UNCHANGED <<inputs, locals, winWs, launched, selectedDisplay, idx, log,
                   failures, envEvents>>

\* A variant of SelectDisplay: the script goes on with no display selected.
SelectDisplayUnchecked ==
    /\ pc = "selectDisplay"
    /\ selectedDisplay' = selectDisplay(layout, displays).index
    /\ pc' = "clearList"
    /\ UNCHANGED <<inputs, locals, winWs, launched, idx, log, failures,
                   envEvents>>

\* const selectedDisplay = selectDisplay(layout, displays), which throws
\* when it selects none.
SelectDisplay ==
    /\ pc = "selectDisplay"
    /\ LET selected == selectDisplay(layout, displays)
       IN  /\ selectedDisplay' = selected.index
           /\ pc' = IF selected.threw THEN "error" ELSE "clearList"
    /\ UNCHANGED <<inputs, locals, winWs, launched, idx, log, failures,
                   envEvents>>

(***************************************************************************)
(* clearWorkspace(layout.workspace)                                        *)
(***************************************************************************)
\* A variant of ClearList: the windows of every workspace are listed.
ClearListEverywhere ==
    /\ pc = "clearList"
    /\ \E ok \in Outcomes :
        /\ Spend(ok)
        /\ log' = Append(log, Call("list", 0, "", layout.workspace, 0, ok))
        /\ IF ok
           THEN LET windows == SelectSeq([w \in WindowIds |-> w],
                                         LAMBDA w : winWs[w] # "closed")
                IN  /\ toStash' = windows
                    /\ IF windows = <<>> THEN Goto(MoveFrom(1))
                       ELSE pc' = "clearMove" /\ idx' = 1
           ELSE Throw /\ toStash' = toStash
    /\ UNCHANGED <<inputs, winWs, launched, selectedDisplay, attempt, windowId,
                   envEvents>>

\* const windows = await getWindowsInWorkspace(workspace): a failing command
\* throws.
ClearList ==
    /\ pc = "clearList"
    /\ \E ok \in Outcomes :
        /\ Spend(ok)
        /\ log' = Append(log, Call("list", 0, "", layout.workspace, 0, ok))
        /\ IF ok
           THEN LET windows == getWindowsInWorkspace(layout.workspace)
                IN  /\ toStash' = windows
                    /\ IF windows = <<>> THEN Goto(MoveFrom(1))
                       ELSE pc' = "clearMove" /\ idx' = 1
           ELSE Throw /\ toStash' = toStash
    /\ UNCHANGED <<inputs, winWs, launched, selectedDisplay, attempt, windowId,
                   envEvents>>

\* A variant of moveWindow: the command leaves the window where it is.
moveWindowNowhere(w, workspace, ok) ==
    /\ log' = Append(log, Call("move", w, AppOf[w], workspace, 0, ok))
    /\ winWs' = winWs

\* moveWindow(windowId, workspace): `aerospace move-node-to-workspace`; a
\* failing command throws.
moveWindow(w, workspace, ok) ==
    /\ log' = Append(log, Call("move", w, AppOf[w], workspace, 0, ok))
    /\ winWs' = IF ok THEN [winWs EXCEPT ![w] = workspace] ELSE winWs

\* A variant of MoreWindows: the loop ends after the first window.
NoMoreWindows(i) == FALSE

\* for (const window of windows): whether a window follows the i-th.
MoreWindows(i) == i < Len(toStash)

\* for (const window of windows) await moveWindow(window["window-id"],
\* stashWorkspace)
ClearMove ==
    /\ pc = "clearMove"
    /\ \E ok \in Outcomes :
        /\ Spend(ok)
        /\ moveWindow(toStash[idx], stashWorkspace, ok)
        /\ IF ok
           THEN IF MoreWindows(idx) THEN pc' = pc /\ idx' = idx + 1
                ELSE Goto(MoveFrom(1))
           ELSE Throw
    /\ UNCHANGED <<inputs, locals, launched, selectedDisplay, envEvents>>

(***************************************************************************)
(* traverseTreeMove: ensureWindow(item.bundleId), then moveWindow.         *)
(***************************************************************************)
\* launchIfNotRunning, the probe: isRunning is the text of the pipeline
\* compared with "true".  The pipeline ends with grep's status, which is not
\* 0 when the application is not running; whether the shell throws on that
\* status is left open (both outcomes are modelled).
Probe ==
    /\ pc = "probe"
    /\ LET bundleId == MoveVisits[idx]
           running == IsRunning(bundleId)
           isRunning == ProbeText(running) = "true"
       IN  \E ok \in Outcomes \cup (IF running THEN {} ELSE {FALSE}) :
            /\ failures' = IF ~ok /\ running THEN failures - 1 ELSE failures
            /\ log' = Append(log, Call("probe", 0, bundleId, "", 0, ok))
            /\ IF ok THEN pc' = (IF isRunning THEN "poll" ELSE "open") /\ idx' = idx
               ELSE Throw
    /\ attempt' = 0
    /\ UNCHANGED <<inputs, winWs, launched, selectedDisplay, toStash, windowId,
                   envEvents>>

\* launchIfNotRunning: if (!isRunning) await $`open -b "${bundleId}"`; a
\* failing command throws.
Open ==
    /\ pc = "open"
    /\ \E ok \in Outcomes :
        /\ Spend(ok)
        /\ log' = Append(log, Call("open", 0, MoveVisits[idx], "", 0, ok))
        /\ launched' = IF ok THEN launched \cup {MoveVisits[idx]} ELSE launched
        /\ IF ok THEN pc' = "poll" /\ idx' = idx ELSE Throw
    /\ UNCHANGED <<inputs, locals, winWs, selectedDisplay, envEvents>>

\* A variant of MoreAttempts: the loop of ensureWindow has no last turn.
AlwaysMoreAttempts(n) == TRUE

\* for await (const i of Array(30)): whether a turn follows n turns.
MoreAttempts(n) == n < PollAttempts

\* A variant of MoveWin: a failed move of a leaf's window is passed over.
MoveWinSoft ==
    /\ pc = "moveWin"
    /\ \E ok \in Outcomes :
        /\ failures' = IF ok THEN failures ELSE failures - 1
        /\ log' = Append(log, [op |-> "move", win |-> windowId, app |-> AppOf[windowId],
                               arg |-> layout.workspace, val |-> 0, ok |-> ok,
                               pass |-> "move", visit |-> idx,
                               awaited |-> TRUE])
        /\ winWs' = IF ok THEN [winWs EXCEPT ![windowId] = layout.workspace] ELSE winWs
        /\ pc' = MoveFrom(idx + 1).pc
        /\ idx' = MoveFrom(idx + 1).idx
    /\ UNCHANGED <<inputs, locals, launched, selectedDisplay, envEvents>>

\* ensureWindow, one turn of the loop: getWindowId; a window id is returned,
\* anything else is slept on (setTimeout, 100 ms); after PollAttempts turns
\* null is returned and the leaf is left alone.  A failing query throws.
Poll ==
    /\ pc = "poll"
    /\ \E ok \in Outcomes :
        /\ Spend(ok)
        /\ LET query == Call("query", IF ok THEN getWindowId(MoveVisits[idx]) ELSE 0,
                             MoveVisits[idx], "", 0, ok)
               sleep == Call("sleep", 0, MoveVisits[idx], "", 100, TRUE)
           IN  log' = IF ok /\ getWindowId(MoveVisits[idx]) = 0
                      THEN log \o <<query, sleep>>
                      ELSE Append(log, query)
        /\ IF ~ok THEN Throw /\ UNCHANGED <<attempt, windowId>>
           ELSE /\ windowId' = getWindowId(MoveVisits[idx])
                /\ attempt' = attempt + 1
                /\ IF windowId' # 0 THEN pc' = "moveWin" /\ idx' = idx
                   ELSE IF MoreAttempts(attempt') THEN pc' = pc /\ idx' = idx
                   ELSE Goto(MoveFrom(idx + 1))
    /\ UNCHANGED <<inputs, winWs, launched, selectedDisplay, toStash, envEvents>>

\* A variant of MoveWin: every window of the application is moved.
MoveWinEach ==
    /\ pc = "moveWin"
    /\ \E ok \in Outcomes :
        /\ Spend(ok)
        /\ LET each == {w \in WindowIds : AppOf[w] = AppOf[windowId] /\ winWs[w] # "closed"}
               rest == SelectSeq(Listing(winWs[windowId], 1),
                                 LAMBDA w : w \in each /\ w # windowId)
           IN  /\ log' = log \o [k \in 1..(1 + Len(rest)) |->
                                   Call("move", IF k = 1 THEN windowId ELSE rest[k - 1],
                                        AppOf[windowId], layout.workspace, 0, ok)]
               /\ winWs' = IF ok
                           THEN [w \in WindowIds |->
                                   IF w = windowId \/ \E k \in 1..Len(rest) : rest[k] = w
                                   THEN layout.workspace ELSE winWs[w]]
                           ELSE winWs
        /\ IF ok THEN Goto(MoveFrom(idx + 1)) ELSE Throw
    /\ UNCHANGED <<inputs, locals, launched, selectedDisplay, envEvents>>

\* if (windowId) await moveWindow(windowId, layout.workspace)
MoveWin ==
    /\ pc = "moveWin"
    /\ \E ok \in Outcomes :
        /\ Spend(ok)
        /\ moveWindow(windowId, layout.workspace, ok)
        /\ IF ok THEN Goto(MoveFrom(idx + 1)) ELSE Throw
    /\ UNCHANGED <<inputs, locals, launched, selectedDisplay, envEvents>>


(***************************************************************************)
(* traverseTreeReposition                                                  *)
(***************************************************************************)
\* A command issued with .nothrow(): its status is ignored.
Nothrow(op, win, app, arg, val, next) ==
    \E ok \in Outcomes :
        /\ Spend(ok)
        /\ log' = Append(log, Call(op, win, app, arg, val, ok))
        /\ Goto(next)

\* A variant of Flatten: the workspace is not flattened.
FlattenOmitted ==
    /\ pc = "flatten"
    /\ pc' = "layoutList"
    /\ UNCHANGED <<inputs, locals, winWs, launched, selectedDisplay, envEvents,
                   idx, log, failures>>

\* await flattenWorkspace(layout.workspace)
Flatten ==
    /\ pc = "flatten"
    /\ Nothrow("flatten", 0, "", layout.workspace, 0, [pc |-> "layoutList", idx |-> idx])
    /\ UNCHANGED <<inputs, locals, winWs, launched, selectedDisplay, envEvents>>

\* setWorkspaceLayout: const workspaceWindows = await
\* getWindowsInWorkspace(workspace); a failing command throws.
LayoutList ==
    /\ pc = "layoutList"
    /\ \E ok \in Outcomes :
        /\ Spend(ok)
        /\ log' = Append(log, Call("list", 0, "", layout.workspace, 0, ok))
        /\ IF ~ok THEN Throw /\ windowId' = windowId
           ELSE LET workspaceWindows == getWindowsInWorkspace(layout.workspace)
                IN  IF Len(workspaceWindows) > 0
                    THEN /\ windowId' = workspaceWindows[1]
                         /\ pc' = "layoutSet" /\ idx' = idx
                    ELSE /\ windowId' = windowId
                         /\ Goto(RepositionFrom(idx + 1))
    /\ UNCHANGED <<inputs, winWs, launched, selectedDisplay, toStash, attempt,
                   envEvents>>

\* setWorkspaceLayout: `aerospace layout ${layout} --window-id ${windowId}`
LayoutSet ==
    /\ pc = "layoutSet"
    /\ Nothrow("layout", windowId, AppOf[windowId], layout.layout, 0,
               RepositionFrom(idx + 1))
    /\ UNCHANGED <<inputs, locals, winWs, launched, selectedDisplay, envEvents>>

\* A query of getWindowId outside ensureWindow: a failing command throws.
Query(bundleId, found, none) ==
    \E ok \in Outcomes :
        /\ Spend(ok)
        /\ log' = Append(log, Call("query", IF ok THEN getWindowId(bundleId) ELSE 0,
                                    bundleId, "", 0, ok))
        /\ IF ok THEN /\ windowId' = getWindowId(bundleId)
                      /\ Goto(IF windowId' # 0 THEN found ELSE none)
           ELSE windowId' = windowId /\ Throw

\* const windowId = await getWindowId(item.bundleId); if (windowId) ...
RepoQuery ==
    /\ pc = "repoQuery"
    /\ Query(RepositionVisits[idx].bundleId, [pc |-> "focus", idx |-> idx],
             RepositionFrom(idx + 1))
    /\ UNCHANGED <<inputs, winWs, launched, selectedDisplay, toStash, attempt,
                   envEvents>>

\* await focusWindow(windowId)
Focus ==
    /\ pc = "focus"
    /\ Nothrow("focus", windowId, AppOf[windowId], "", 0, [pc |-> "join", idx |-> idx])
    /\ UNCHANGED <<inputs, locals, winWs, launched, selectedDisplay, envEvents>>

\* await joinItemWithPreviousWindow(windowId): `aerospace join-with left`
Join ==
    /\ pc = "join"
    /\ Nothrow("join", windowId, AppOf[windowId], "left", 0, RepositionFrom(idx + 1))
    /\ UNCHANGED <<inputs, locals, winWs, launched, selectedDisplay, envEvents>>

(***************************************************************************)
(* switchToWorkspace and traverseTreeResize                                *)
(***************************************************************************)
\* await switchToWorkspace(layout.workspace)
Switch ==
    /\ pc = "switch"
    /\ Nothrow("switch", 0, "", layout.workspace, 0, ResizeFrom(1))
    /\ UNCHANGED <<inputs, locals, winWs, launched, selectedDisplay, envEvents>>

\* A variant of ResizeQuery: no query, the window id of the last one is kept.
ResizeQueryOmitted ==
    /\ pc = "resizeQuery"
    /\ pc' = "resize"
    /\ UNCHANGED <<inputs, locals, winWs, launched, selectedDisplay, envEvents,
                   idx, log, failures>>

\* const windowId = await getWindowId(bundleId), of a sized leaf or of the
\* first child of a sized group; null or not, resizeWindow is called.
ResizeQuery ==
    /\ pc = "resizeQuery"
    /\ Query(ResizeVisits[idx].bundleId, [pc |-> "resize", idx |-> idx],
             [pc |-> "resize", idx |-> idx])
    /\ UNCHANGED <<inputs, winWs, launched, selectedDisplay, toStash, attempt,
                   envEvents>>

\* getDisplayWidth() / getDisplayHeight()
screenDimension(dimension) ==
    IF selectedDisplay = 0 THEN 0
    ELSE IF dimension = "width" THEN displays[selectedDisplay].width
    ELSE displays[selectedDisplay].height

\* const [numerator, denominator] = size.split("/").map(Number): a missing
\* part is undefined, which is falsy like 0 and NaN.
Part(size, k) == IF k <= Len(size) THEN size[k] ELSE 0
Falsy(x) == x = 0 \/ x = NaN

\* A variant of Resizable: resizeWindow returns for no value.
Unguarded(v) == TRUE

\* if (!screenDimension || !numerator || !denominator) return: no command.
Resizable(v) ==
    /\ ~Falsy(screenDimension(v.dimension))
    /\ ~Falsy(Part(v.size, 1))
    /\ ~Falsy(Part(v.size, 2))

\* resizeWindow(windowId, size, dimension): `aerospace resize --window-id
\* ${windowId} ${dimension} ${newWidth}`, a null window id included.
Resize ==
    /\ pc = "resize"
    /\ LET v == ResizeVisits[idx]
       IN  IF Resizable(v)
           THEN Nothrow("resize", windowId,
                        IF windowId = 0 THEN "" ELSE AppOf[windowId], v.dimension,
                        NewWidth(screenDimension(v.dimension), Part(v.size, 1),
                                 Part(v.size, 2)),
                        ResizeFrom(idx + 1))
           ELSE /\ Goto(ResizeFrom(idx + 1))
                /\ UNCHANGED <<log, failures>>
    /\ UNCHANGED <<inputs, locals, winWs, launched, selectedDisplay, envEvents>>

(***************************************************************************)
(* The user and the applications.                                          *)
(***************************************************************************)
TargetWindows == {w \in WindowIds : winWs[w] = layout.workspace}

\* The user applies the same layout a second time, after a run in which no
\* command failed and no window opened on its own account.
Rerun ==
    /\ pc = "done"
    /\ run = 1
    /\ \A k \in 1..Len(log) : log[k].ok /\ log[k].op # "appear"
    /\ run' = 2
    /\ firstTarget' = TargetWindows
    /\ pc' = "start"
    /\ idx' = 0
    /\ selectedDisplay' = 0
    /\ toStash' = <<>>
    /\ attempt' = 0
    /\ windowId' = 0
    /\ log' = <<>>
    /\ UNCHANGED <<layoutName, stashWorkspace, displays, winWs, launched,
                   failures, envEvents>>

\* The workspaces a window may open in.
OpenWorkspaces == {"1", "2"}

\* A window of a started application opens.
WindowAppears ==
    /\ envEvents > 0
    /\ pc \notin {"done", "error"}
    /\ \E w \in WindowIds, ws \in OpenWorkspaces :
        /\ AppOf[w] \in launched
        /\ winWs[w] = "closed"
        /\ winWs' = [winWs EXCEPT ![w] = ws]
        /\ log' = Append(log, Call("appear", w, AppOf[w], ws, 0, TRUE))
    /\ envEvents' = envEvents - 1
    /\ UNCHANGED <<inputs, locals, launched, selectedDisplay, pc, idx, failures>>

(***************************************************************************)
(* The specification.                                                      *)
(***************************************************************************)
\* The windows open when the script starts, and where: by window id.
Crowded == <<"2", "2", "2", "2", "1">>
Waiting == <<"1", "1", "closed", "2", "1">>
Bare == <<"closed", "closed", "2", "closed", "2">>
Applied == <<"1", "S", "1", "closed", "S">>
Late == <<"closed", "2", "2", "2", "1">>

Inventories == {<<BuiltIn>>, <<BuiltIn, External>>}

\* What getDisplays() may return besides: no display, displays of which
\* none is main or none internal, an external main display, three displays.
Arrangements ==
    Inventories \cup
    {<<>>, <<External>>, <<ExternalMain>>, <<BuiltInSecond, ExternalMain>>,
     <<Sidecar, BuiltIn>>, <<BuiltIn, Projector>>, <<BuiltIn, External, Projector>>,
     <<ExternalMain, Projector>>}

Scenario(names, stashes, inventories, sessions, nFail, nEnv) ==
    [layoutName : names, stashWorkspace : stashes, displays : inventories,
     winWs : sessions, failures : {nFail}, envEvents : {nEnv}]

\* The runs checked: every layout that places windows in every session,
\* with commands that may fail; a display without a usable resolution;
\* the layouts that launch applications, with
\* windows that open on their own account; a stash workspace that is the
\* target workspace; every display selector with every set of displays.
Scenarios ==
    Scenario((LayoutNames \ ScreenNames) \cup {"empty", "absent"}, {"S"}, {<<BuiltIn>>},
             {Crowded, Waiting, Bare, Applied}, MaxFailures, 0)
    \cup Scenario(ScreenNames \cup {"plain"}, {"S"}, Arrangements, {Waiting},
                  MaxFailures, 0)
    \cup Scenario({"wide", "side"}, {"S"}, {<<BuiltIn, External>>},
                  {Crowded, Waiting, Bare, Applied}, MaxFailures, 0)
    \cup Scenario({"work", "wide"}, {"S"}, Inventories, {Waiting, Late},
                  0, MaxEnvEvents)
    \cup Scenario({"ab", "work"}, {"1"}, {<<BuiltIn>>}, {Waiting, Applied},
                  MaxFailures, 0)
    \cup Scenario({"work"}, {"S"}, {<<BuiltIn>>}, {Bare}, 0, 1)
    \cup Scenario({"wide"}, {"S"}, {<<BuiltIn, Headless>>}, {Waiting}, 0, 0)

Init ==
    /\ \E s \in Scenarios :
        /\ layoutName = s.layoutName
        /\ stashWorkspace = s.stashWorkspace
        /\ displays = s.displays
        /\ winWs = s.winWs
        /\ failures = s.failures
        /\ envEvents = s.envEvents
    /\ launched = {}
    /\ selectedDisplay = 0
    /\ pc = "start"
    /\ idx = 0
    /\ toStash = <<>>
    /\ attempt = 0
    /\ windowId = 0
    /\ log = <<>>
    /\ run = 1
    /\ firstTarget = {}

Next ==
    \/ SelectLayout
    \/ GetDisplays
    \/ SelectDisplay
    \/ ClearList
    \/ ClearMove
    \/ Probe
    \/ Open
    \/ Poll
    \/ MoveWin
    \/ Flatten
    \/ LayoutList
    \/ LayoutSet
    \/ RepoQuery
    \/ Focus
    \/ Join
    \/ Switch
    \/ ResizeQuery
    \/ Resize
    \/ Rerun
    \/ WindowAppears

Spec == Init /\ [][Next]_vars


(***************************************************************************)
(* The properties.  They are read off the log of the run: the external     *)
(* commands in the order they were issued, and the windows that opened.    *)
(***************************************************************************)
Positions == 1..Len(log)
IsCall(e) == e.op # "appear"
NoneAppeared == \A p \in Positions : log[p].op # "appear"
AllSucceeded == \A p \in Positions : log[p].ok
Count(op) == Cardinality({p \in Positions : log[p].op = op})

\* The script has returned from clearWorkspace, and has not thrown.
ClearOver ==
    pc \notin {"start", "getDisplays", "selectDisplay", "clearList", "clearMove", "error"}

PassRank(pass) ==
    CASE pass = "clear" -> 1 [] pass = "move" -> 2 [] pass = "reposition" -> 3
      [] pass = "switch" -> 4 [] pass = "resize" -> 5 [] OTHER -> 0

\* The pass a command is part of, by what the command is: a launch belongs
\* to Materialize, a flatten, set-layout, focus or join to Arrange, the
\* workspace switch to Focus, a resize to Resize; a move, a listing and a
\* query are issued by several passes.
Stage(e) ==
    CASE e.op \in {"probe", "open"} -> 2
      [] e.op \in {"flatten", "layout", "focus", "join"} -> 3
      [] e.op = "switch" -> 4
      [] e.op = "resize" -> 5
      [] OTHER -> PassRank(e.pass)

IsStashMove(e) == e.op = "move" /\ e.pass = "clear"
IsMaterializeMove(e) == e.op = "move" /\ e.pass = "move"

Acts(e) ==
    /\ e.op \in {"move", "flatten", "layout", "focus", "join", "switch", "resize"}
    /\ e.pass # "clear"
Shape(e) ==
    <<e.op, IF e.op \in {"move", "focus", "join", "resize"} THEN e.app ELSE "", e.arg>>
Issued == [k \in 1..Len(SelectSeq(log, Acts)) |-> Shape(SelectSeq(log, Acts)[k])]

\* The stash-clear of the run: the listing of the target workspace, then
\* nothing but moves to the stash workspace.
StashClear ==
    LET clear == SelectSeq(log, LAMBDA e : e.pass = "clear" /\ IsCall(e))
    IN  /\ clear # <<>>
        /\ clear[1].op = "list" /\ clear[1].arg = layout.workspace
        /\ \A k \in 2..Len(clear) :
            clear[k].op = "move" /\ clear[k].arg = stashWorkspace

\* A run of the layout of A then B on workspace "1" in mode v_tiles, on the
\* main display, has ended; A and B each had a window and no command failed.
TwoLeavesApplied ==
    /\ layoutName = "ab"
    /\ pc = "done"
    /\ AllSucceeded
    /\ NoneAppeared
    /\ getWindowId("A") # 0
    /\ getWindowId("B") # 0

\* C2, as stated: the run of A then B issues the stash-clear, the moves of A
\* and B, flatten, the layout mode, focus(B) and join(B, left), the switch,
\* and no resize.
C2_Stated ==
    TwoLeavesApplied =>
        /\ StashClear
        /\ Issued = << <<"move", "A", "1">>, <<"move", "B", "1">>,
                       <<"flatten", "", "1">>, <<"layout", "", "v_tiles">>,
                       <<"focus", "B", "">>, <<"join", "B", "left">>,
                       <<"switch", "", "1">> >>

\* C2: the run of A then B issues the stash-clear, the moves of A and B,
\* flatten, the layout mode and the switch: no focus, no join (the leaves of
\* the root list are not joined) and no resize.
C2_TwoLeaves ==
    TwoLeavesApplied =>
        /\ StashClear
        /\ Issued = << <<"move", "A", "1">>, <<"move", "B", "1">>,
                       <<"flatten", "", "1">>, <<"layout", "", "v_tiles">>,
                       <<"switch", "", "1">> >>

\* The run of A then B has ended, after a stash-clear that moved a window
\* out.
C2_Witness ==
    /\ TwoLeavesApplied
    /\ \E p \in Positions : IsStashMove(log[p])
    /\ Count("switch") = 1

\* A run has ended in which no command failed and no window opened.
Undisturbed == pc = "done" /\ AllSucceeded /\ NoneAppeared

\* C3, as stated: at each leaf a move to the target workspace is issued for
\* every window the leaf's application has open.
C3_Stated ==
    Undisturbed =>
        \A k \in 1..Len(MoveVisits), w \in WindowIds :
            AppOf[w] = MoveVisits[k] /\ winWs[w] # "closed"
                => \E p \in Positions :
                       IsMaterializeMove(log[p]) /\ log[p].visit = k /\ log[p].win = w

\* The queries and the moves of the k-th leaf of traverseTreeMove, and
\* whether the traversal has left the leaf behind.
Polls(k) == SelectSeq(log, LAMBDA e : e.op = "query" /\ e.pass = "move" /\ e.visit = k)
Moves(k) == SelectSeq(log, LAMBDA e : IsMaterializeMove(e) /\ e.visit = k)
LeafOver(k) ==
    /\ pc # "error"
    /\ \/ pc = "done"
       \/ PassRank(PassOf(pc)) > 2
       \/ PassOf(pc) = "move" /\ idx > k

\* C3: Materialize visits the leaves in depth-first pre-order; at a leaf it
\* moves to the target workspace one window, the first the window manager
\* lists for the leaf's application (the one of the lowest id, whatever
\* other windows the application has), right after the query that found it;
\* and a leaf is left without a move exactly when PollAttempts queries all
\* found no window.
C3_FirstWindow ==
    layoutName \in LayoutNames =>
        /\ \A p \in Positions :
            IsMaterializeMove(log[p]) =>
                LET e == log[p]
                    q == CHOOSE q \in 1..(p - 1) :
                            /\ IsCall(log[q])
                            /\ \A r \in (q + 1)..(p - 1) : ~IsCall(log[r])
                IN  /\ e.visit \in 1..Len(MoveVisits)
                    /\ e.app = MoveVisits[e.visit]
                    /\ e.arg = layout.workspace
                    /\ log[q].op = "query" /\ log[q].ok
                    /\ log[q].visit = e.visit /\ log[q].win = e.win
                    /\ \A v \in WindowIds :
                        AppOf[v] = e.app /\ v < e.win =>
                            \/ winWs[v] = "closed"
                            \/ \E r \in (q + 1)..Len(log) :
                                log[r].op = "appear" /\ log[r].win = v
        /\ \A k \in 1..Len(MoveVisits) :
            LET polls == Polls(k)
            IN  /\ Len(Moves(k)) <= 1
                /\ LeafOver(k) =>
                    (Moves(k) = <<>>
                        <=> /\ Len(polls) = PollAttempts
                            /\ \A j \in 1..Len(polls) : polls[j].win = 0)
        /\ LET moves == SelectSeq(log, IsMaterializeMove)
           IN  \A k \in 1..(Len(moves) - 1) : moves[k].visit < moves[k + 1].visit

\* A run has ended that moved the first window of A and left A's second
\* window where it was, and left a leaf alone after PollAttempts queries.
C3_Witness ==
    /\ pc = "done"
    /\ \E p \in Positions : IsMaterializeMove(log[p]) /\ log[p].win = 1
    /\ winWs[2] \notin {"closed", layout.workspace}
    /\ \E k \in 1..Len(MoveVisits) :
        Moves(k) = <<>> /\ Len(Polls(k)) = PollAttempts

\* Every application the layout names has a window.
AllResolved == \A k \in 1..Len(MoveVisits) : getWindowId(MoveVisits[k]) # 0

\* Every list of two or more siblings in the tree is a list of leaves.
RECURSIVE LeafLists(_)
LeafLists(tree) ==
    /\ Len(tree) >= 2 => \A k \in 1..Len(tree) : tree[k].kind = "window"
    /\ \A k \in 1..Len(tree) :
        tree[k].kind = "group" => LeafLists(tree[k].windows)

\* The placements C4 states for a list, from its item at index i (from 0):
\* a join for the leaf at index 1, a move to the left for a leaf after it.
RECURSIVE StatedPlacements(_, _)
StatedPlacements(tree, i) ==
    IF i >= Len(tree) THEN <<>>
    ELSE LET item == tree[i + 1]
             here == IF item.kind = "group" THEN StatedPlacements(item.windows, 0)
                     ELSE IF i = 0 THEN <<>>
                     ELSE IF i = 1 THEN << <<"join", item.bundleId>> >>
                     ELSE << <<"move-left", item.bundleId>> >>
         IN  here \o StatedPlacements(tree, i + 1)

\* The leaves of the groups of the tree that are not the first of their
\* list, depth first: inGroup tells whether tree is the list of a group.
RECURSIVE LaterLeavesOfGroups(_, _, _)
LaterLeavesOfGroups(tree, inGroup, i) ==
    IF i >= Len(tree) THEN <<>>
    ELSE LET item == tree[i + 1]
             here == IF item.kind = "group"
                     THEN LaterLeavesOfGroups(item.windows, TRUE, 0)
                     ELSE IF inGroup /\ i >= 1 THEN <<item.bundleId>>
                     ELSE <<>>
         IN  here \o LaterLeavesOfGroups(tree, inGroup, i + 1)

Placed ==
    LET placements == SelectSeq(log, LAMBDA e : e.op \in {"join", "move-left"})
    IN  [k \in 1..Len(placements) |-> <<placements[k].op, placements[k].app>>]

\* C4, as stated: in a tree whose sibling lists are lists of resolved
\* leaves, each list of two or more has one join, for its leaf at index 1,
\* and a move to the left for each leaf after it.
C4_Stated ==
    (Undisturbed /\ AllResolved /\ LeafLists(layout.windows))
        => Placed = StatedPlacements(layout.windows, 0)

\* C4: Arrange focuses and joins with the left every resolved leaf of a
\* group that is not the first of its list (n - 1 joins for a group of n
\* resolved leaves), in declared order; it joins no leaf of the root list
\* and moves no window to the left.
C4_JoinsInGroups ==
    (pc = "done" /\ NoneAppeared) =>
        LET IsResolved(bundleId) == getWindowId(bundleId) # 0
            joined == SelectSeq(LaterLeavesOfGroups(layout.windows, FALSE, 0),
                                IsResolved)
        IN  /\ Placed = [k \in 1..Len(joined) |-> <<"join", joined[k]>>]
            /\ \A p \in Positions :
                log[p].op = "join" =>
                    /\ log[p].arg = "left"
                    /\ p > 1
                    /\ log[p - 1].op = "focus"
                    /\ log[p - 1].win = log[p].win
                    /\ log[p].win = getWindowId(log[p].app)
            /\ Count("focus") = Count("join")

\* A run has ended that joined the second and the third leaf of a group of
\* three resolved leaves.
C4_Witness ==
    /\ pc = "done"
    /\ NoneAppeared
    /\ layoutName = "side"
    /\ AllResolved
    /\ Count("join") = 2

\* Materialize is about to begin: clearWorkspace has returned and no
\* command has been issued since.
MaterializeBegins ==
    /\ ClearOver
    /\ \A p \in Positions : IsCall(log[p]) => log[p].pass = "clear"

\* C5: Stash moves to the stash workspace, once each and in the order
\* listed, the windows of the target workspace (all of them, as they stand
\* when the pass lists them at the start of the run); no command of the
\* stash follows a launch or a materialize move; and when the stash
\* workspace is not the target workspace, the target workspace is empty
\* when Materialize begins.
C5_Stash ==
    layoutName \in LayoutNames =>
        LET stashed == SelectSeq(log, IsStashMove)
        IN  /\ \A k \in 1..Len(stashed) :
                /\ k <= Len(toStash)
                /\ stashed[k].win = toStash[k]
                /\ stashed[k].arg = stashWorkspace
            /\ ClearOver =>
                /\ Len(stashed) = Len(toStash)
                /\ \A k \in 1..Len(stashed) : stashed[k].ok
            /\ (pc = "clearMove" /\ idx = 1 /\ NoneAppeared) =>
                /\ {toStash[k] : k \in 1..Len(toStash)} = TargetWindows
                /\ Cardinality(TargetWindows) = Len(toStash)
            /\ LET calls == SelectSeq(log, IsCall)
               IN  \A k \in 1..(Len(calls) - 1) :
                       calls[k + 1].pass = "clear" => calls[k].pass = "clear"
            /\ (MaterializeBegins /\ NoneAppeared /\ stashWorkspace # layout.workspace)
                => TargetWindows = {}

\* Materialize is about to begin after a stash of two windows or more, to a
\* stash workspace that is not the target workspace.
C5_Witness ==
    /\ layoutName \in LayoutNames
    /\ MaterializeBegins
    /\ Len(toStash) >= 2
    /\ Len(SelectSeq(log, IsStashMove)) = Len(toStash)
    /\ stashWorkspace # layout.workspace
    /\ Len(MoveVisits) > 0

\* C6: when the layout is applied a second time and no window opens in the
\* meantime, the target workspace holds the same windows after the second
\* run as after the first.
C6_Idempotent ==
    (run = 2 /\ pc = "done" /\ NoneAppeared) => TargetWindows = firstTarget

\* A second run has ended that stashed the windows the first run had left
\* in the target workspace and moved a window back.
C6_Witness ==
    /\ run = 2
    /\ pc = "done"
    /\ NoneAppeared
    /\ firstTarget # {}
    /\ stashWorkspace # layout.workspace
    /\ {log[p].win : p \in {r \in Positions : IsStashMove(log[r])}} = firstTarget
    /\ \E p \in Positions : IsMaterializeMove(log[p])

\* C7, as stated: for a layout with no display selector, the display
\* resolution returns the main display and the run goes on to the passes.
C7_Stated ==
    (/\ layoutName \in LayoutNames
     /\ layout.display = Undefined
     /\ pc \notin {"start", "getDisplays", "selectDisplay"})
        => /\ selectedDisplay # 0
           /\ displays[selectedDisplay].isMain

\* The sized nodes of a list whose owner has the given orientation, depth
\* first: a leaf with a size, and a group with a size whose first child is
\* a leaf, written before its children.  The dimension of a leaf is that of
\* the orientation of the list's owner.  The dimension of a group is that of
\* the orientation of the enclosing group when nested; of a group in the
\* root list it is that of the group's own orientation when own, of the
\* layout's otherwise.
RECURSIVE SizedNodes(_, _, _, _)
SizedNodes(tree, orientation, nested, own) ==
    IF tree = <<>> THEN <<>>
    ELSE LET item == Head(tree)
             here ==
                 IF item.kind = "window" THEN
                     IF item.size # NoSize
                     THEN <<[of |-> "window", bundleId |-> item.bundleId,
                             size |-> item.size,
                             dimension |-> Dimension(orientation)]>>
                     ELSE <<>>
                 ELSE
                     (IF /\ item.size # NoSize
                         /\ item.windows # <<>>
                         /\ item.windows[1].kind = "window"
                      THEN <<[of |-> "group", bundleId |-> item.windows[1].bundleId,
                              size |-> item.size,
                              dimension |->
                                  Dimension(IF nested \/ ~own THEN orientation
                                            ELSE item.orientation)]>>
                      ELSE <<>>)
                     \o SizedNodes(item.windows, item.orientation, TRUE, own)
         IN  here \o SizedNodes(Tail(tree), orientation, nested, own)

\* A size n/d of two positive numbers.
IsFraction(size) == Len(size) = 2 /\ size[1] > 0 /\ size[2] > 0

\* C8, as stated: every leaf with a size n/d is resized, in the dimension
\* of the orientation of its enclosing group (of the layout, in the root
\* list), to floor(extent * n / d) pixels.
C8_Stated ==
    layoutName \in LayoutNames =>
        LET nodes == SizedNodes(layout.windows, layout.orientation, FALSE, FALSE)
        IN  /\ \A p \in Positions :
                (log[p].op = "resize" /\ nodes[log[p].visit].of = "window") =>
                    LET node == nodes[log[p].visit]
                    IN  /\ log[p].arg = node.dimension
                        /\ log[p].val
                            = (screenDimension(node.dimension) * node.size[1])
                                \div node.size[2]
            /\ pc = "done" =>
                \A k \in 1..Len(nodes) :
                    (/\ nodes[k].of = "window"
                     /\ IsFraction(nodes[k].size)
                     /\ screenDimension(nodes[k].dimension) > 0) =>
                        \E p \in Positions : log[p].op = "resize" /\ log[p].visit = k

\* The pixels resizeWindow computes, for every extent of a display and every
\* fraction a layout declares.
Extents == UNION {{d.width, d.height} : d \in {BuiltIn, External}}
Fractions ==
    LET sized(l) == SizedNodes(Layouts[l].windows, Layouts[l].orientation,
                               FALSE, FALSE)
        sizes == UNION {{sized(l)[k].size : k \in 1..Len(sized(l))} : l \in LayoutNames}
    IN  {size \in sizes : IsFraction(size)}
Pixels == [extent \in Extents, size \in Fractions |-> NewWidth(extent, size[1], size[2])]

\* What the resizes issued for the sized groups are, when a root group
\* takes the dimension as own says.
GroupResizes(own) ==
    layoutName \in LayoutNames =>
        LET nodes == SizedNodes(layout.windows, layout.orientation, FALSE, own)
        IN  /\ \A p \in Positions :
                (log[p].op = "resize" /\ nodes[log[p].visit].of = "group") =>
                    LET node == nodes[log[p].visit]
                    IN  /\ log[p].arg = node.dimension
                        /\ log[p].val = Pixels[screenDimension(node.dimension), node.size]
                        /\ log[p].win # 0 => log[p].app = node.bundleId
                        /\ p > 1
                        /\ log[p - 1].op \in {"query", "appear"}
            /\ pc = "done" =>
                \A k \in 1..Len(nodes) :
                    (/\ nodes[k].of = "group"
                     /\ IsFraction(nodes[k].size)
                     /\ screenDimension(nodes[k].dimension) > 0) =>
                        \E p \in Positions : log[p].op = "resize" /\ log[p].visit = k

\* C9, as stated: the first child of a sized group is resized to the
\* group's fraction, in the dimension of the parent group's orientation
\* when the group is nested and of the group's own orientation when it is
\* in the root list.
C9_Stated == GroupResizes(TRUE)

\* C9: the first child of a sized group is resized to the group's fraction,
\* in the dimension of the parent group's orientation when the group is
\* nested and of the layout's root orientation when it is in the root list.
C9_GroupDimension == GroupResizes(FALSE)

\* A run has ended that resized the first child of a vertical group of a
\* horizontal root list in width, and the first child of a group nested in
\* it in height.
C9_Witness ==
    /\ pc = "done"
    /\ layoutName = "wide"
    /\ \E p \in Positions :
        /\ log[p].op = "resize" /\ log[p].visit = 1
        /\ log[p].arg = "width" /\ log[p].app = "B"
    /\ \E p \in Positions :
        /\ log[p].op = "resize" /\ log[p].visit = 2
        /\ log[p].arg = "height" /\ log[p].app = "C"

\* C10, as stated: the run is not aborted by the failure of a stash move, a
\* workspace listing, a flatten, a set-layout, a focus, a join, a workspace
\* switch or a resize.
C10_Stated ==
    (pc = "error" /\ log # <<>> /\ ~log[Len(log)].ok) =>
        LET last == log[Len(log)]
        IN  /\ ~IsStashMove(last)
            /\ last.op \notin {"list", "flatten", "layout", "focus", "join",
                               "switch", "resize"}


\* The commands whose status the script ignores.
BestEffort == {"flatten", "layout", "focus", "join", "switch", "resize"}

\* C11, as stated: a failed move of a leaf's window to the target workspace
\* does not end the run.
C11_Stated ==
    \A p \in Positions :
        (IsMaterializeMove(log[p]) /\ ~log[p].ok) => pc # "error"

\* C11: a failed move of a leaf's window to the target workspace ends the
\* run at that command (no leaf after it is ensured, no later pass runs);
\* a failed flatten, set-layout, focus, join, workspace switch or resize
\* does not end the run.
C11_MoveFatal ==
    /\ \A p \in Positions :
        (IsMaterializeMove(log[p]) /\ ~log[p].ok)
            => p = Len(log) /\ pc = "error"
    /\ (log # <<>> /\ log[Len(log)].op \in BestEffort) => pc # "error"

\* The run has ended at a failed move of a leaf's window, with leaves left.
C11_Witness ==
    /\ pc = "error"
    /\ log # <<>>
    /\ IsMaterializeMove(log[Len(log)])
    /\ ~log[Len(log)].ok
    /\ log[Len(log)].visit < Len(MoveVisits)

\* C12, as stated: when a run ends, a leaf whose application has no window
\* has had no move, no focus, no join and no resize, of its own size or of
\* the size of the group it leads.
C12_Stated ==
    (pc = "done" /\ NoneAppeared) =>
        \A k \in 1..Len(MoveVisits) :
            getWindowId(MoveVisits[k]) = 0 =>
                /\ \A p \in Positions :
                    log[p].op \in {"move", "focus", "join"}
                        => log[p].app # MoveVisits[k]
                /\ \A p \in Positions :
                    log[p].op = "resize"
                        => ResizeVisits[log[p].visit].bundleId # MoveVisits[k]

\* C13: ensureWindow queries at most PollAttempts times for a leaf; no
\* query follows one that found a window; a sleep follows every query that
\* found none; a leaf left without a window has had PollAttempts queries;
\* and the loop is always left.
C13_Polls ==
    layoutName \in LayoutNames =>
        /\ \A k \in 1..Len(MoveVisits) :
            LET polls == Polls(k)
            IN  /\ Len(polls) <= PollAttempts
                /\ \A j \in 1..(Len(polls) - 1) : polls[j].ok /\ polls[j].win = 0
                /\ (LeafOver(k) /\ Moves(k) = <<>>) => Len(polls) = PollAttempts
        /\ \A p \in Positions :
            /\ log[p].op = "sleep" =>
                /\ p > 1
                /\ log[p - 1].op = "query" /\ log[p - 1].ok /\ log[p - 1].win = 0
                /\ log[p - 1].visit = log[p].visit
            /\ (log[p].op = "query" /\ log[p].pass = "move" /\ log[p].ok /\ log[p].win = 0)
                => p < Len(log) /\ log[p + 1].op = "sleep"
        /\ pc = "poll" => attempt < PollAttempts /\ attempt = Len(Polls(idx))
        /\ pc = "moveWin" => attempt = Len(Polls(idx)) /\ attempt <= PollAttempts

\* A run has ended in which one leaf was found a window after queries that
\* found none, and another was left alone after PollAttempts queries.
C13_Witness ==
    /\ pc = "done"
    /\ \E k \in 1..Len(MoveVisits) :
        Len(Polls(k)) \in 2..(PollAttempts - 1) /\ Moves(k) # <<>>
    /\ \E k \in 1..Len(MoveVisits) :
        Len(Polls(k)) = PollAttempts /\ Moves(k) = <<>>

\* The script is past the selection of the layout and of the display.
PastSelection == pc \notin {"start", "getDisplays", "selectDisplay"}

\* The commands issued so far, and a run ended with an error before any.
Commands == SelectSeq(log, IsCall)
Aborted == pc = "error" /\ Commands = <<>> /\ selectedDisplay = 0

\* C14: when the layout is not in the configuration, or no display is
\* selected for it, the run ends with an error and has issued no command.
C14_FatalSelection ==
    /\ (PastSelection /\ layoutName \notin LayoutNames)
        => pc = "error" /\ Commands = <<>>
    /\ (PastSelection /\ layoutName \in LayoutNames /\ selectedDisplay = 0) => Aborted
    /\ Commands # <<>> => layoutName \in LayoutNames /\ selectedDisplay # 0

\* A run has ended with an error at the selection of a display, for a
\* layout of the configuration with a display selector.
C14_Witness ==
    /\ layoutName \in LayoutNames
    /\ Aborted
    /\ displays # <<>>
    /\ layout.display # Undefined

\* The selected display is the first of a set of displays (by index), and
\* the run is aborted when the set is empty.
SelectedFirst(hits) ==
    IF hits = {} THEN Aborted
    ELSE selectedDisplay \in hits /\ \A i \in hits : selectedDisplay <= i

\* The run is past the selection for a layout whose display is the text.
Selecting(chars) ==
    /\ layoutName \in LayoutNames
    /\ PastSelection
    /\ layout.display = Text(chars)

\* C15: the alias secondary selects the display that is not main when there
\* are two displays, the main display when there are fewer (no display
\* when none is main), and fails when there are more than two.
C15_Secondary ==
    Selecting(<<"s", "e", "c", "o", "n", "d", "a", "r", "y">>) =>
        /\ Len(displays) = 2 => SelectedFirst({i \in 1..Len(displays) : ~displays[i].isMain})
        /\ Len(displays) < 2 => SelectedFirst({i \in 1..Len(displays) : displays[i].isMain})
        /\ Len(displays) > 2 => Aborted

\* A run on the second, not main, display of two has ended.
C15_Witness ==
    /\ Selecting(<<"s", "e", "c", "o", "n", "d", "a", "r", "y">>)
    /\ Len(displays) = 2
    /\ selectedDisplay = 2
    /\ displays[1].isMain
    /\ pc = "done"

\* C16: the alias external selects the display that is not internal when
\* there is one, the main display when there is none (no display when none
\* is main), and fails when there are two or more.
C16_External ==
    Selecting(<<"e", "x", "t", "e", "r", "n", "a", "l">>) =>
        LET externals == {i \in 1..Len(displays) : ~displays[i].isInternal}
        IN  /\ Cardinality(externals) = 1 => SelectedFirst(externals)
            /\ Cardinality(externals) = 0
                => SelectedFirst({i \in 1..Len(displays) : displays[i].isMain})
            /\ Cardinality(externals) >= 2 => Aborted

\* A run on the one external display, the main one, listed after the
\* internal display, has ended.
C16_Witness ==
    /\ Selecting(<<"e", "x", "t", "e", "r", "n", "a", "l">>)
    /\ displays = <<BuiltInSecond, ExternalMain>>
    /\ selectedDisplay = 2
    /\ pc = "done"

\* C17: the alias main selects the display flagged main, the alias internal
\* the first display flagged internal; when no display has the flag the
\* run ends with an error before any command.
C17_MainInternal ==
    /\ Selecting(<<"m", "a", "i", "n">>)
        => SelectedFirst({i \in 1..Len(displays) : displays[i].isMain})
    /\ Selecting(<<"i", "n", "t", "e", "r", "n", "a", "l">>)
        => SelectedFirst({i \in 1..Len(displays) : displays[i].isInternal})

\* A run on the first internal display, which is not the main one, has
\* ended.
C17_Witness ==
    /\ Selecting(<<"i", "n", "t", "e", "r", "n", "a", "l">>)
    /\ displays = <<Sidecar, BuiltIn>>
    /\ selectedDisplay = 1
    /\ pc = "done"

\* The number a selector denotes: a number, or a text of decimal digits; -1
\* for anything else.
DecimalDigits == <<"0", "1", "2", "3", "4", "5", "6", "7", "8", "9">>
IsDigit(c) == \E d \in 1..10 : DecimalDigits[d] = c
DigitValue(c) == (CHOOSE d \in 1..10 : DecimalDigits[d] = c) - 1
RECURSIVE DigitsValue(_)
DigitsValue(chars) ==
    IF chars = <<>> THEN 0
    ELSE 10 * DigitsValue(SubSeq(chars, 1, Len(chars) - 1)) + DigitValue(chars[Len(chars)])
Denoted(display) ==
    IF display.type = "number" THEN display.num
    ELSE IF /\ display.type = "string"
            /\ display.text # <<>>
            /\ \A k \in 1..Len(display.text) : IsDigit(display.text[k])
         THEN DigitsValue(display.text)
    ELSE -1

\* C18: a selector that is a number, or a text of digits, selects the first
\* display whose id is that number, whatever the names of the displays;
\* when no display has that id the run ends with an error before any
\* command.
C18_ById ==
    (layoutName \in LayoutNames /\ PastSelection /\ Denoted(layout.display) >= 0) =>
        SelectedFirst({i \in 1..Len(displays) : displays[i].id = Denoted(layout.display)})

\* A run on the display of id 2, selected by the text "2", has ended, where
\* another display has a 2 in its name.
C18_Witness ==
    /\ Selecting(<<"2">>)
    /\ displays = <<BuiltIn, External, Projector>>
    /\ selectedDisplay = 2
    /\ pc = "done"

\* Whether two characters are the same letter, whatever their case, and
\* whether a pattern of plain characters occurs in a name.
CasePairs ==
    {<<"A", "a">>, <<"C", "c">>, <<"D", "d">>, <<"E", "e">>, <<"H", "h">>,
     <<"I", "i">>, <<"L", "l">>, <<"M", "m">>, <<"N", "n">>, <<"O", "o">>,
     <<"P", "p">>, <<"R", "r">>}
SameLetter(a, b) == a = b \/ \E pair \in CasePairs : {a, b} = {pair[1], pair[2]}
Occurs(pattern, name) ==
    \E s \in 0..(Len(name) - Len(pattern)) :
        \A k \in 1..Len(pattern) : SameLetter(pattern[k], name[s + k])

\* C19: a selector that is a text, not a number and not an alias, selects
\* the first display in whose name it occurs, whatever the case of the
\* letters; when it occurs in no name the run ends with an error before
\* any command.
C19_ByName ==
    (/\ layoutName \in LayoutNames
     /\ PastSelection
     /\ layout.display.type = "string"
     /\ layout.display.text # <<>>
     /\ Denoted(layout.display) < 0
     /\ \A k \in DOMAIN DisplayAlias : DisplayAlias[k] # layout.display.text)
        => SelectedFirst({i \in 1..Len(displays) :
                            Occurs(layout.display.text, displays[i].name)})

\* A run on the display named DELL, selected by the text "dell" and listed
\* second, has ended.
C19_Witness ==
    /\ Selecting(<<"d", "e", "l", "l">>)
    /\ Len(displays) >= 2
    /\ selectedDisplay = 2
    /\ displays[2].name = <<"D", "E", "L", "L">>
    /\ pc = "done"

\* C20, as stated: when no display is enumerated the run fails at the
\* enumeration: the selection of a display is not attempted.
C20_Stated == displays = <<>> => pc # "selectDisplay"

\* The script has returned from traverseTreeReposition.
ArrangeOver == pc \in {"switch", "resizeQuery", "resize", "done"}

\* The commands of traverseTreeReposition issued so far.
Arranging == SelectSeq(Commands, LAMBDA e : e.pass = "reposition")

\* C21, as stated: whatever the layout tree, a run that is through Arrange
\* has flattened the target workspace once and has set the layout mode once.
C21_Stated ==
    (layoutName \in LayoutNames /\ ArrangeOver)
        => Count("flatten") = 1 /\ Count("layout") = 1

\* C21: for a layout whose root list is not empty, Arrange begins with one
\* flatten of the target workspace, then lists that workspace and, when the
\* listing succeeds and is not empty, sets the layout's mode on the first
\* window listed, all before any focus or join; when the workspace holds no
\* window no mode is set, and for an empty root list Arrange issues nothing.
C21_FlattenThenLayout ==
    layoutName \in LayoutNames =>
        /\ Count("flatten") <= 1
        /\ Count("layout") <= 1
        /\ layout.windows = <<>> => Arranging = <<>>
        /\ Arranging # <<>> =>
            Arranging[1].op = "flatten" /\ Arranging[1].arg = layout.workspace
        /\ Len(Arranging) >= 2 =>
            Arranging[2].op = "list" /\ Arranging[2].arg = layout.workspace
        /\ \A k \in 1..Len(Arranging) :
            /\ Arranging[k].op = "layout" =>
                /\ k = 3
                /\ Arranging[2].ok
                /\ Arranging[k].arg = layout.layout
                /\ Arranging[k].win # 0
            /\ Arranging[k].op \in {"focus", "join"} => k > 2
        /\ (ArrangeOver /\ layout.windows # <<>>) => Len(Arranging) >= 2
        /\ (/\ log # <<>>
            /\ log[Len(log)].op = "list"
            /\ log[Len(log)].pass = "reposition"
            /\ log[Len(log)].ok
            /\ pc # "error")
            => (pc = "layoutSet" <=> TargetWindows # {})
        /\ (/\ Len(log) >= 2
            /\ log[Len(log)].op = "layout"
            /\ log[Len(log) - 1].op = "list")
            => /\ log[Len(log)].win \in TargetWindows
               /\ \A w \in TargetWindows : log[Len(log)].win <= w

\* A run has ended that flattened, set the layout mode and then joined.
C21_Witness ==
    /\ pc = "done"
    /\ AllSucceeded
    /\ Count("flatten") = 1
    /\ Count("layout") = 1
    /\ Count("join") > 0

\* The layout modes the groups of a tree declare.
RECURSIVE GroupLayouts(_)
GroupLayouts(tree) ==
    IF tree = <<>> THEN {}
    ELSE (IF Head(tree).kind = "group"
          THEN (IF Head(tree).layout = "" THEN {} ELSE {Head(tree).layout})
               \cup GroupLayouts(Head(tree).windows)
          ELSE {})
         \cup GroupLayouts(Tail(tree))

\* C22, as stated: a run that ends has set, on some window, each layout mode
\* a group of the layout declares.
C22_Stated ==
    (layoutName \in LayoutNames /\ pc = "done" /\ AllSucceeded) =>
        \A mode \in GroupLayouts(layout.windows) :
            \E p \in Positions : log[p].op = "layout" /\ log[p].arg = mode

\* C23, as stated: every resize is issued before the switch to the target
\* workspace, and the switch is the last command of a run that ends.
C23_Stated ==
    /\ \A p, q \in Positions :
        (log[p].op = "resize" /\ log[q].op = "switch") => p < q
    /\ (pc = "done" /\ Commands # <<>>)
        => Commands[Len(Commands)].op = "switch"

\* The windows that opened during the run.
Appeared == {log[p].win : p \in {q \in Positions : log[q].op = "appear"}}

\* C24: a leaf has at most one move to the target workspace, of a window of
\* its application before which the application has no other window that
\* was open all along; when no window opens during the run, all the leaves
\* of an application move the same window, and no other window of the
\* application is moved.
C24_OneMove ==
    layoutName \in LayoutNames =>
        LET moves == SelectSeq(log, IsMaterializeMove)
        IN  /\ \A k \in 1..Len(MoveVisits) : Len(Moves(k)) <= 1
            /\ Len(moves) <= Len(MoveVisits)
            /\ \A k \in 1..Len(moves) :
                /\ AppOf[moves[k].win] = MoveVisits[moves[k].visit]
                /\ \A u \in WindowIds :
                    (AppOf[u] = moves[k].app /\ u < moves[k].win)
                        => winWs[u] = "closed" \/ u \in Appeared
            /\ NoneAppeared =>
                \A j, k \in 1..Len(moves) :
                    moves[j].app = moves[k].app => moves[j].win = moves[k].win

\* A run has ended in which the application A had two windows outside the
\* target workspace: its leaf moved the first and the second stayed.
C24_Witness ==
    /\ pc = "done"
    /\ NoneAppeared
    /\ \E k \in 1..Len(MoveVisits) :
        /\ MoveVisits[k] = "A"
        /\ Len(Moves(k)) = 1
        /\ Moves(k)[1].win = 1
    /\ winWs[1] = layout.workspace
    /\ winWs[2] \notin {"closed", layout.workspace, stashWorkspace}

\* C25, as stated: a launch request is issued only for an application that
\* is not running: an application that shows a window is never launched.
C25_Stated ==
    (log # <<>> /\ log[Len(log)].op = "open") =>
        \A w \in WindowIds : AppOf[w] = log[Len(log)].app => winWs[w] = "closed"

Widths ==
    [extent \in Extents, numerator \in 1..MaxPart, denominator \in 1..MaxPart |->
        NewWidth(extent, numerator, denominator)]

\* The pixels never decrease when the numerator grows.
WidthsMonotone ==
    \A extent \in Extents, denominator \in 1..MaxPart, numerator \in 1..(MaxPart - 1) :
        Widths[extent, numerator, denominator]
            <= Widths[extent, numerator + 1, denominator]

\* The inputs of the resize at position p of the log: the extent of the
\* selected display along the dimension of the command, and the size.
ExtentAt(p) == screenDimension(log[p].arg)
SizeAt(p) == ResizeVisits[log[p].visit].size

\* C27: the pixels of a resize are a function of the extent, the numerator
\* and the denominator alone (two resizes with the same inputs carry the
\* same pixels), and for a fixed extent and denominator they never decrease
\* when the numerator grows.
C27_Deterministic ==
    /\ WidthsMonotone
    /\ layoutName \in LayoutNames =>
        LET resizes == {p \in Positions : log[p].op = "resize"}
        IN  /\ \A p \in resizes :
                /\ ExtentAt(p) \in Extents
                /\ SizeAt(p)[1] \in 1..MaxPart /\ SizeAt(p)[2] \in 1..MaxPart
                /\ log[p].val = Widths[ExtentAt(p), SizeAt(p)[1], SizeAt(p)[2]]
            /\ \A p, q \in resizes :
                (ExtentAt(p) = ExtentAt(q) /\ SizeAt(p) = SizeAt(q))
                    => log[p].val = log[q].val
            /\ \A p, q \in resizes :
                (/\ ExtentAt(p) = ExtentAt(q)
                 /\ SizeAt(p)[2] = SizeAt(q)[2]
                 /\ SizeAt(p)[1] <= SizeAt(q)[1])
                    => log[p].val <= log[q].val

\* A run has issued two resizes along the same extent, of the same
\* denominator and of different numerators, and two with the same inputs.
C27_Witness ==
    /\ \E p, q \in Positions :
        /\ log[p].op = "resize" /\ log[q].op = "resize"
        /\ ExtentAt(p) = ExtentAt(q)
        /\ SizeAt(p)[2] = SizeAt(q)[2]
        /\ SizeAt(p)[1] < SizeAt(q)[1]
        /\ log[p].val < log[q].val
    /\ \E p, q \in Positions :
        /\ p # q
        /\ log[p].op = "resize" /\ log[q].op = "resize"
        /\ ExtentAt(p) = ExtentAt(q)
        /\ SizeAt(p) = SizeAt(q)

\* The leaves of a tree that are not the first item of their list, at any
\* depth, depth first, from the item at index i (from 0) of the list.
RECURSIVE LaterLeaves(_, _)
LaterLeaves(tree, i) ==
    IF i >= Len(tree) THEN <<>>
    ELSE (IF tree[i + 1].kind = "group" THEN LaterLeaves(tree[i + 1].windows, 0)
          ELSE IF i > 0 THEN <<tree[i + 1].bundleId>>
          ELSE <<>>)
         \o LaterLeaves(tree, i + 1)

\* Whether s is t with some of its elements left out.
RECURSIVE IsSubsequence(_, _)
IsSubsequence(s, t) ==
    IF s = <<>> THEN TRUE
    ELSE IF t = <<>> THEN FALSE
    ELSE IF Head(s) = Head(t) THEN IsSubsequence(Tail(s), Tail(t))
    ELSE IsSubsequence(s, Tail(t))

\* C28: the windows focused in Arrange are, in order, windows of leaves
\* that are not the first of their list (a first leaf, at any depth, is
\* neither focused nor joined); a join is the command right after the focus
\* of the same window, and a focus is followed by nothing but that join.
C28_FocusThenJoin ==
    layoutName \in LayoutNames =>
        LET calls == Commands
            focused == SelectSeq(log, LAMBDA e : e.op = "focus")
            joined == SelectSeq(log, LAMBDA e : e.op = "join")
        IN  /\ IsSubsequence([k \in 1..Len(focused) |-> focused[k].app],
                             LaterLeaves(layout.windows, 0))
            /\ IsSubsequence([k \in 1..Len(joined) |-> joined[k].app],
                             LaterLeaves(layout.windows, 0))
            /\ \A k \in 1..Len(calls) :
                /\ calls[k].op = "join" =>
                    /\ k > 1
                    /\ calls[k - 1].op = "focus"
                    /\ calls[k - 1].win = calls[k].win
                    /\ calls[k].win # 0
                /\ (calls[k].op = "focus" /\ k < Len(calls)) =>
                    calls[k + 1].op = "join"
            /\ Len(focused) \in {Len(joined), Len(joined) + 1}

\* A run has ended that joined the second leaf of a group and left alone
\* the first, which has a window.
C28_Witness ==
    /\ pc = "done"
    /\ layoutName = "stack"
    /\ \A w \in {1, 3, 4} : winWs[w] = layout.workspace
    /\ Count("focus") = 1
    /\ \E p \in Positions : log[p].op = "join" /\ log[p].app = "C" /\ log[p].win = 4

\* The first window listed for an application among the windows open.
FirstListed(bundleId) ==
    LET open == {w \in WindowIds : AppOf[w] = bundleId /\ winWs[w] # "closed"}
    IN  IF open = {} THEN 0 ELSE CHOOSE w \in open : \A v \in open : w <= v

\* C29: the command before a focus, and before a resize, is a successful
\* query of the same visit and of the same pass, and the focus, the join
\* after it and the resize name the window that query answered with; a
\* query that has just been made answers with the window listed first for
\* its application at that time, whatever window an earlier pass used.
C29_FreshQuery ==
    layoutName \in LayoutNames =>
        LET calls == Commands
        IN  /\ \A k \in 1..Len(calls) :
                /\ calls[k].op \in {"focus", "resize"} =>
                    /\ k > 1
                    /\ calls[k - 1].op = "query"
                    /\ calls[k - 1].ok
                    /\ calls[k - 1].pass = calls[k].pass
                    /\ calls[k - 1].visit = calls[k].visit
                    /\ calls[k - 1].win = calls[k].win
                /\ calls[k].op = "focus" =>
                    calls[k].app = RepositionVisits[calls[k].visit].bundleId
                /\ calls[k].op = "resize" =>
                    calls[k - 1].app = ResizeVisits[calls[k].visit].bundleId
                /\ calls[k].op = "join" => calls[k - 1].win = calls[k].win
            /\ (log # <<>> /\ log[Len(log)].op = "query" /\ log[Len(log)].ok)
                => log[Len(log)].win = FirstListed(log[Len(log)].app)

\* A run has ended that moved the second window of A into the target
\* workspace and, the first window of A having opened since, resized the
\* first.
C29_Witness ==
    /\ pc = "done"
    /\ \E p, q, r \in Positions :
        /\ p < q /\ q < r
        /\ IsMaterializeMove(log[p]) /\ log[p].app = "A" /\ log[p].win = 2
        /\ log[q].op = "appear" /\ log[q].win = 1
        /\ log[r].op = "resize" /\ log[r].app = "A" /\ log[r].win = 1

\* No window opened during the run but the ones the run waited for: the
\* only window of an application a leaf was polling for, found by a later
\* query of that leaf.
NoInterference ==
    \A p \in Positions :
        log[p].op = "appear" =>
            /\ \A v \in WindowIds :
                (AppOf[v] = log[p].app /\ v # log[p].win) => winWs[v] = "closed"
            /\ \E q \in (p + 1)..Len(log) :
                /\ log[q].op = "query" /\ log[q].pass = "move"
                /\ log[q].win = log[p].win

\* The first listed windows of the applications the leaves name.
LeafWindows ==
    {FirstListed(MoveVisits[k]) : k \in 1..Len(MoveVisits)} \ {0}

\* C30: after a run that ended, with a stash workspace other than the
\* target and no window opening but those the run waited for, the target
\* workspace holds the first listed window of every application a leaf
\* names and that has a window, and no other window (one window for an
\* application, however many leaves name it); every other window the run
\* found in the target workspace is in the stash workspace.
C30_Membership ==
    (/\ layoutName \in LayoutNames
     /\ pc = "done"
     /\ stashWorkspace # layout.workspace
     /\ NoInterference) =>
        /\ TargetWindows = LeafWindows
        /\ \A v, w \in TargetWindows : AppOf[v] = AppOf[w] => v = w
        /\ \A p \in Positions :
            (IsStashMove(log[p]) /\ log[p].win \notin LeafWindows)
                => winWs[log[p].win] = stashWorkspace
        /\ run = 2 =>
            \A w \in firstTarget \ LeafWindows : winWs[w] = stashWorkspace

\* A run has ended for a layout that names A twice: the first window of A
\* is in the target workspace, and the second window of A and the window
\* of X, both found there, are in the stash workspace.
C30_Witness ==
    /\ pc = "done"
    /\ layoutName = "wide"
    /\ NoneAppeared
    /\ stashWorkspace # layout.workspace
    /\ winWs[1] = layout.workspace
    /\ winWs[2] = stashWorkspace
    /\ winWs[5] = stashWorkspace
    /\ \E p \in Positions : IsStashMove(log[p]) /\ log[p].win = 2

\* A step changes the workspace of an open window only if it is a stash
\* move of a window of the target workspace, or the move to the target
\* workspace of the window the last query answered with, for the
\* application of the leaf visited, a window before which the application
\* lists no other (but one that opened during the run).
FrameStep ==
    \A w \in WindowIds :
        (winWs[w] # "closed" /\ winWs'[w] # winWs[w]) =>
            \/ /\ pc = "clearMove"
               /\ winWs[w] = layout.workspace
               /\ winWs'[w] = stashWorkspace
            \/ /\ pc = "moveWin"
               /\ winWs'[w] = layout.workspace
               /\ AppOf[w] = MoveVisits[idx]
               /\ Commands[Len(Commands)].op = "query"
               /\ Commands[Len(Commands)].win = w
               /\ \A u \in WindowIds :
                    (AppOf[u] = AppOf[w] /\ u < w)
                        => winWs[u] = "closed" \/ u \in Appeared

\* C31: a run changes the workspace of no window but the windows it listed
\* in the target workspace, moved to the stash workspace, and the first
\* listed window of the application of a leaf, moved to the target
\* workspace; Arrange, Focus and Resize issue no move.
C31_Frame ==
    /\ [][FrameStep]_vars
    /\ [](\A p \in Positions :
            log[p].op = "move" => log[p].pass \in {"clear", "move"})

\* A run has ended that stashed X, moved the first windows of A and B to the
\* target workspace, and left the second window of A and the window of C in
\* the workspace they were in.
C31_Witness ==
    /\ pc = "done"
    /\ layoutName = "ab"
    /\ NoneAppeared
    /\ winWs = <<"1", "2", "1", "2", "S">>
    /\ \E p \in Positions : IsStashMove(log[p]) /\ log[p].win = 5
    /\ Count("resize") = 0

\* The visit of the resize pass a logged resize belongs to, and what
\* resizeWindow reads for it: the two parts of the size and the extent of
\* the selected display.
Unusable(x) == x = 0 \/ x = NaN
Numerator(v) == IF Len(v.size) >= 1 THEN v.size[1] ELSE NaN
Denominator(v) == IF Len(v.size) >= 2 THEN v.size[2] ELSE NaN
Extent(v) ==
    IF v.dimension = "width" THEN displays[selectedDisplay].width
    ELSE displays[selectedDisplay].height
Unsizable(v) ==
    Unusable(Numerator(v)) \/ Unusable(Denominator(v)) \/ Unusable(Extent(v))

\* resizeWindow for a visit with an unusable number issues no command and
\* the run goes on with the next visit, or ends after the last (a step in
\* which no window opens is a step of the script).
SkipStep ==
    (pc = "resize" /\ envEvents' = envEvents /\ Unsizable(ResizeVisits[idx])) =>
        /\ log' = log
        /\ winWs' = winWs
        /\ IF idx < Len(ResizeVisits)
           THEN pc' = "resizeQuery" /\ idx' = idx + 1
           ELSE pc' = "done"

\* C32: no resize is issued for a size whose numerator or denominator is 0
\* or not a number, nor when the extent of the display is 0 or not a
\* number, and the run continues with the next node; every resize issued
\* carries a number of pixels, none derived from a division by zero.
C32_Guard ==
    /\ [][SkipStep]_vars
    /\ [](\A p \in Positions :
            log[p].op = "resize" =>
                /\ ~Unsizable(ResizeVisits[log[p].visit])
                /\ log[p].val \in Nat)

\* A run has ended on the external display: C with 1/3 was resized, B with
\* 1/0 and A with 0/1 after it were not, and A with 1/3, the last node, was.
C32_Witness ==
    /\ pc = "done"
    /\ layoutName = "wide"
    /\ displays = <<BuiltIn, External>>
    /\ Len(ResizeVisits) = 6
    /\ ResizeVisits[4].size = <<1, 0>>
    /\ ResizeVisits[5].size = <<0, 1>>
    /\ {log[p].visit : p \in {q \in Positions : log[q].op = "resize"}}
           = {1, 2, 3, 6}

\* A run has ended on the display without a usable resolution: no node was
\* resized, and every node was visited.
C32_NoExtent ==
    /\ pc = "done"
    /\ layoutName = "wide"
    /\ displays = <<BuiltIn, Headless>>
    /\ Len(SelectSeq(log, LAMBDA c : c.op = "query" /\ c.pass = "resize"))
           = Len(ResizeVisits)
    /\ Count("resize") = 0

\* The sized groups of a tree whose first child is a leaf, each with its
\* sized leaf children: rep is the resize of the first child for the group,
\* own the resize of a child for its own size, first whether that child is
\* the first.  parent is <<>> in the root list.
RECURSIVE GroupPairs(_, _, _)
GroupPairs(tree, parent, orientation) ==
    IF tree = <<>> THEN {}
    ELSE LET item == Head(tree)
             rep  == [bundleId |-> item.windows[1].bundleId, size |-> item.size,
                      dimension |-> IF parent # <<>>
                                    THEN Dimension(parent[1].orientation)
                                    ELSE Dimension(orientation)]
             here ==
                 IF item.kind = "window" THEN {}
                 ELSE (IF /\ item.size # NoSize
                          /\ item.windows # <<>>
                          /\ item.windows[1].kind = "window"
                       THEN {[rep |-> rep,
                              own |-> [bundleId |-> item.windows[k].bundleId,
                                       size |-> item.windows[k].size,
                                       dimension |-> Dimension(item.orientation)],
                              first |-> k = 1] :
                             k \in {j \in 1..Len(item.windows) :
                                      /\ item.windows[j].kind = "window"
                                      /\ item.windows[j].size # NoSize}}
                       ELSE {})
                      \cup GroupPairs(item.windows, <<item>>, orientation)
         IN  here \cup GroupPairs(Tail(tree), parent, orientation)

\* The pairs of every layout of the configuration.
PairsOf ==
    [name \in LayoutNames |->
        GroupPairs(Layouts[name].windows, <<>>, Layouts[name].orientation)]

\* The resize command of a node whose size and extent are usable: of its
\* application, for its dimension, with the pixels of its size.
IsResizeOf(c, node) ==
    /\ c.op = "resize"
    /\ c.app = node.bundleId
    /\ c.arg = node.dimension
    /\ c.val = Widths[Extent(node), node.size[1], node.size[2]]

\* C33: the resize of a sized group's first child for the group is issued
\* before the resize of any child of the group for its own size; when the
\* first child is itself sized, the two follow each other, for the same
\* window when no window opened in between, and the resize for the group is
\* not requested again after the one for the leaf's own size.
C33_GroupBeforeChildren ==
    \A p \in Positions :
        log[p].op = "resize" =>
            \A pair \in PairsOf[layoutName] :
                (/\ ~Unsizable(pair.rep)
                 /\ ~Unsizable(pair.own)
                 /\ IsResizeOf(log[p], pair.own)) =>
                    \E q \in 1..(p - 1) :
                        /\ IsResizeOf(log[q], pair.rep)
                        /\ pair.first =>
                            /\ \A r \in (q + 1)..(p - 1) : log[r].op # "resize"
                            /\ NoneAppeared => log[q].win = log[p].win
                            /\ \A r \in (p + 1)..Len(log) :
                                  ~IsResizeOf(log[r], pair.rep)

\* A run has ended in which the window of C was given half the height of
\* the external display, for its group, then a third of the width, for
\* itself, and no size after that.
C33_Witness ==
    /\ pc = "done"
    /\ layoutName = "wide"
    /\ displays = <<BuiltIn, External>>
    /\ \E p \in Positions, q \in Positions :
        /\ q < p
        /\ log[q].op = "resize" /\ log[q].app = "C" /\ log[q].ok
        /\ log[q].arg = "height" /\ log[q].val = 540
        /\ log[p].op = "resize" /\ log[p].app = "C" /\ log[p].ok
        /\ log[p].arg = "width" /\ log[p].val = 640
        /\ log[p].win = log[q].win
        /\ \A r \in (p + 1)..Len(log) : log[r].win # log[p].win


====
